---- MODULE Spec2Model ----
(***************************************************************************)
(* State-machine model of the D&D Buddy backend:                           *)
(*   - the agent turn (lambdas/dnd-buddy-agent/agent.py) with its          *)
(*     plan/execute graph, tool dispatch, final generation and history     *)
(*     persistence (tools/get_history.py);                                 *)
(*   - the session endpoints (lambdas/sessions/handler.py);                *)
(*   - the indexing pipeline (lambdas/indexing/handler.py).                *)
(* Strings of the program are TLA+ strings; Python None / an absent key is *)
(* the marker NoneVal.                                                     *)
(***************************************************************************)
EXTENDS Integers, Sequences, FiniteSets, TLC

VARIABLES
    pc,              \* position of the execution context inside main()
    turn,            \* locals of main(): user_id, campaign, session_id, user_message, history_messages
    messages,        \* MessagesState["messages"] of the running graph
    tools_executed,  \* AgentGraphBuilder.tools_executed
    response_text,   \* main(): response_text before the tools summary is appended
    result,          \* value returned by main() for the last request
    history_cache,   \* get_history._history_cache (session id -> cleaned messages)
    store,           \* DynamoDB chat-history table (session id -> History list)
    extCalls,        \* external services called so far by the current request
    invoked,         \* (tool name, arguments) pairs tool_func.invoke was called with in this turn
    planCalls,       \* planning_llm.invoke calls of this turn
    genCalls,        \* creative_llm.invoke calls of this turn
    toolRounds,      \* _tool_node executions of this turn
    raisedIn,        \* phase whose call raised in this turn ("none" when nothing raised)
    storeAtStart,    \* the table as it was when the current request arrived
    cacheAtStart,    \* the cache as it was when the current request arrived
    creator,         \* session id -> user whose turn first wrote the session (NoneVal: not created)
    pendingSave,     \* session id -> the pair the latest successful save_messages wrote, until
                     \* the next load_history of that session (<<>>: nothing pending)
    savedBefore,     \* pendingSave of the turn's session when the turn loaded its history
    loadedFrom,      \* where the turn's first load_history got its list: "cache", "store",
                     \* "failed" (the table read raised), "none" (no load yet)
    turns,           \* number of requests main() has received
    streamed,        \* what the stream callback of the turn has been handed, in order
    connected,       \* the WebSocket connection of the request is open
    delivered,       \* contents post_to_connection has sent to the client in this turn
    final_messages,  \* generate_final_response: the list creative_llm was invoked with
                     \* in this turn (<<>>: not invoked)
    other_cache,     \* get_history._history_cache of a second execution context
    sessResp,        \* response of the sessions lambda to the latest request, until the
                     \* next chat request arrives
    vectors,         \* the S3 Vectors index: set of records (key, metadata)
    blobs,           \* the campaign files bucket: S3 key -> body (NoneVal: no object)
    ix,              \* worker -> locals of its index_handler invocation
    ilog,            \* the latest MaxLog index requests that returned, in order of return
    returned,        \* number of index requests that have returned
    indexOps,        \* number of requests index_handler has received
    sq,              \* the latest call of search_campaign: arguments, queries, outcome
    ck,              \* the latest call of chunk_text: arguments and returned list
    ws               \* the latest invocation of lambda_handler: the messages it handed
                     \* to send_websocket_message, its status code, whether it called
                     \* agent_main and what that returned

turnVars == <<pc, turn, messages, tools_executed, response_text, result, history_cache,
              store, extCalls, invoked, planCalls, genCalls, toolRounds, raisedIn,
              storeAtStart, cacheAtStart, creator, pendingSave, savedBefore, loadedFrom,
              turns, streamed, connected, delivered, final_messages, other_cache>>
sessVars == <<sessResp>>
indexVars == <<vectors, blobs, ix, ilog, returned, indexOps>>
searchVars == <<sq>>
chunkVars == <<ck>>
sockVars == <<ws>>

----------------------------------------------------------------------------
(* Strings *)

NoneVal == "<None>"

\* Python truthiness of an Optional[str]
Truthy(v) == v # NoneVal /\ v # ""

\* f"{v}" of an Optional[str]
Fmt(v) == IF v = NoneVal THEN "None" ELSE v

\* str.startswith
startswith(s, p) == Len(s) >= Len(p) /\ SubSeq(s, 1, Len(p)) = p

\* the `in` operator on strings
Contains(s, sub) ==
    \E i \in 1..(Len(s) - Len(sub) + 1) : SubSeq(s, i, i + Len(sub) - 1) = sub

----------------------------------------------------------------------------
(* Bounds and inputs *)

MaxTurns == 2
MaxIndexOps == 2
MaxLog == 2
MaxAgentRuns == 5

UserA == "al"
UserB == "al-x"
Campaign == "mines"
Prompt == "who is sildar"

UserIds == {UserA, UserB, NoneVal}
Campaigns == {Campaign, NoneVal}
Prompts == {Prompt, ""}
\* sessionId of a request: NoneVal is a request without the key, "bo-17" a
\* session of a third user
SessionIdInputs == {NoneVal, "al-x-17", "bo-17"}

\* input_data of main(), lines 481-484.  A request lacking a required field is
\* answered from userId, campaign and prompt alone (line 488), so it is taken
\* without the key; UserA is the user that relies on the default session and
\* UserB always names one.
Requests ==
    {req \in [userId : UserIds, campaign : Campaigns, prompt : Prompts,
              sessionId : SessionIdInputs] :
        IF req.userId # NoneVal /\ req.campaign # NoneVal /\ req.prompt # ""
        THEN req.userId = UserB => req.sessionId # NoneVal
        ELSE req.sessionId = NoneVal}

----------------------------------------------------------------------------
(* Configuration of agent.py *)

MAX_ITERATIONS == 3

TOOL_MAP == {"search_campaign", "roll_dice", "get_file_content",
             "get_conversation_history", "translate_runes"}
CONTEXT_TOOLS == {"search_campaign", "get_file_content"}
SESSION_TOOLS == {"get_conversation_history"}
PASSTHROUGH_TOOLS == {"translate_runes"}

----------------------------------------------------------------------------
(* Messages and tool calls *)

Msg(type, content, tool_calls, tool_call_id) ==
    [type |-> type, content |-> content, tool_calls |-> tool_calls, tool_call_id |-> tool_call_id]

SystemMessage(content) == Msg("system", content, <<>>, "")
HumanMessage(content) == Msg("human", content, <<>>, "")
AIMessage(content) == Msg("ai", content, <<>>, "")
\* variant of ToolMessage: the id of the call is not carried over
ToolMessage_no_id(content, id) == Msg("tool", content, <<>>, "")

ToolMessage(content, id) == Msg("tool", content, <<>>, id)

NoArgs == [k \in {} |-> ""]

\* Tool calls the planning model can emit.  The values it supplies for the
\* injected keys are somebody else's identity.
tc_search == [name |-> "search_campaign", id |-> "call_1",
              args |-> [query |-> "sildar", user_id |-> "mallory", campaign |-> "other"]]
tc_file == [name |-> "get_file_content", id |-> "call_2",
            args |-> [category |-> "npcs", filename |-> "sildar.md", user_id |-> "mallory"]]
tc_runes == [name |-> "translate_runes", id |-> "call_1", args |-> [text |-> "HELLO"]]
tc_history == [name |-> "get_conversation_history", id |-> "call_3",
               args |-> [session_id |-> "mallory-1"]]
tc_unknown == [name |-> "list_campaign_files", id |-> "call_4", args |-> NoArgs]
tc_search_runes == [name |-> "search_campaign", id |-> "call_1",
                    args |-> [query |-> "translate_runes"]]

\* Outputs of one planning call: the tool_calls of the response
PlannerOutputs == { <<>>, <<tc_runes>>, <<tc_search, tc_file, tc_history, tc_unknown>>,
                    <<tc_search_runes>> }

INJECTED_KEYS == {"user_id", "campaign", "session_id"}

----------------------------------------------------------------------------
(* tools/get_history.py *)

\* main(): default of input_data.get('sessionId', ...)
DefaultSession(user_id, campaign) == Fmt(user_id) \o "-" \o Fmt(campaign) \o "-default"

\* every session id a request or a tool call can name
SessionIds == (SessionIdInputs \ {NoneVal})
              \cup {DefaultSession(u, c) : u \in UserIds, c \in Campaigns}
              \cup {"mallory-1"}

NotCached == [present |-> FALSE, msgs |-> <<>>]
Cached(msgs) == [present |-> TRUE, msgs |-> msgs]

KeepInHistory(m) == m.type = "human" \/ (m.type = "ai" /\ m.tool_calls = <<>>)

clean_history_messages(msgs) ==
    LET kept == SelectSeq(msgs, KeepInHistory)
    IN  [i \in 1..Len(kept) |-> IF kept[i].type = "human"
                                 THEN HumanMessage(kept[i].content)
                                 ELSE AIMessage(kept[i].content)]

\* load_history against cache c and table t; readOk: the table read returns.
\* ret: returned list, cache: cache afterwards, read: the table was called.
load_history(session_id, c, t, readOk) ==
    IF c[session_id].present
    THEN [ret |-> c[session_id].msgs, cache |-> c, read |-> FALSE]
    ELSE IF readOk
         THEN LET all_messages == clean_history_messages(t[session_id])
              IN  [ret |-> all_messages,
                   cache |-> [c EXCEPT ![session_id] = Cached(all_messages)],
                   read |-> TRUE]
         ELSE [ret |-> <<>>, cache |-> c, read |-> TRUE]

LastN(s, n) == IF Len(s) >= n THEN SubSeq(s, Len(s) - n + 1, Len(s)) ELSE s

get_history_messages(session_id, message_count, c, t, readOk) ==
    LET l == load_history(session_id, c, t, readOk)
    IN  [l EXCEPT !.ret = LastN(l.ret, message_count)]

\* variant of save_messages: the cache entry is removed whether or not the
\* write went through
save_messages_always_invalidate(session_id, user_message, ai_message, c, t, writeOk) ==
    IF writeOk
    THEN [store |-> [t EXCEPT ![session_id] =
                        @ \o <<HumanMessage(user_message), AIMessage(ai_message)>>],
          cache |-> [c EXCEPT ![session_id] = NotCached]]
    ELSE [store |-> t, cache |-> [c EXCEPT ![session_id] = NotCached]]

\* variant of save_messages that leaves the cache entry in place
save_messages_keep_cache(session_id, user_message, ai_message, c, t, writeOk) ==
    IF writeOk
    THEN [store |-> [t EXCEPT ![session_id] =
                        @ \o <<HumanMessage(user_message), AIMessage(ai_message)>>],
          cache |-> c]
    ELSE [store |-> t, cache |-> c]

\* save_messages against cache c and table t; writeOk: add_messages returns.
\* Never raises: a failed write is logged and the function returns.
save_messages(session_id, user_message, ai_message, c, t, writeOk) ==
    IF writeOk
    THEN [store |-> [t EXCEPT ![session_id] =
                        @ \o <<HumanMessage(user_message), AIMessage(ai_message)>>],
          cache |-> [c EXCEPT ![session_id] = NotCached]]
    ELSE [store |-> t, cache |-> c]

----------------------------------------------------------------------------
(* AgentGraphBuilder: tool dispatch *)

Last(s) == s[Len(s)]

\* variant of the injection: a value supplied by the model is kept
InjectContext_setdefault(tool_name, args, t) ==
    LET ctx == IF tool_name \in CONTEXT_TOOLS THEN {"user_id", "campaign"} ELSE {}
        ses == IF tool_name \in SESSION_TOOLS THEN {"session_id"} ELSE {}
    IN  [k \in DOMAIN args \cup ctx \cup ses |->
            IF k \in DOMAIN args THEN args[k]
            ELSE IF k = "user_id" THEN t.user_id
            ELSE IF k = "campaign" THEN t.campaign
            ELSE t.session_id]

\* _tool_node, lines 341-347: copy of the model's arguments with the
\* context of the turn written over it
InjectContext(tool_name, args, t) ==
    LET ctx == IF tool_name \in CONTEXT_TOOLS THEN {"user_id", "campaign"} ELSE {}
        ses == IF tool_name \in SESSION_TOOLS THEN {"session_id"} ELSE {}
    IN  [k \in DOMAIN args \cup ctx \cup ses |->
            IF k \in ctx /\ k = "user_id" THEN t.user_id
            ELSE IF k \in ctx /\ k = "campaign" THEN t.campaign
            ELSE IF k \in ses THEN t.session_id
            ELSE args[k]]

RECURSIVE JoinArgs(_, _)
\* ', '.join(f"{k}={repr(v)}" for k, v in display_args.items())
JoinArgs(d, keys) ==
    IF keys = {} THEN ""
    ELSE LET k == CHOOSE x \in keys : TRUE
         IN  k \o "='" \o d[k] \o "'"
               \o (IF keys \ {k} = {} THEN "" ELSE ", " \o JoinArgs(d, keys \ {k}))

\* variant of ToolEntry: the entry shows every argument handed to the tool
ToolEntry_all_args(tool_name, tool_args) ==
    tool_name \o "(" \o JoinArgs(tool_args, DOMAIN tool_args) \o ")"

\* _tool_node, lines 357-363: the entry appended to tools_executed
ToolEntry(tool_name, tool_args) ==
    tool_name \o "(" \o JoinArgs(tool_args, DOMAIN tool_args \ INJECTED_KEYS) \o ")"

\* tool_func.invoke(tool_args) for a call that returns: the result string,
\* the cache afterwards and the services the tool called
ToolInvoke(tool_name, tool_args, c, t, readOk) ==
    CASE tool_name = "search_campaign" ->
            IF ~Truthy(tool_args.user_id) \/ ~Truthy(tool_args.campaign)
            THEN [content |-> "Error: User context not available", cache |-> c, ext |-> {}]
            ELSE [content |-> "Result 1 (from unknown/unknown)", cache |-> c,
                  ext |-> {"embedding", "vector"}]
      [] tool_name = "get_file_content" ->
            IF ~Truthy(tool_args.user_id) \/ ~Truthy(tool_args.campaign)
            THEN [content |-> "Error: User context or bucket not available", cache |-> c, ext |-> {}]
            ELSE [content |-> "file content", cache |-> c, ext |-> {"blob"}]
      [] tool_name = "get_conversation_history" ->
            LET l == load_history(tool_args.session_id, c, t, readOk)
            IN  [content |-> IF l.ret = <<>>
                             THEN "No conversation history found for this session."
                             ELSE "Last messages from conversation",
                 cache |-> l.cache,
                 ext |-> IF l.read THEN {"history"} ELSE {}]
      [] tool_name = "roll_dice" -> [content |-> "Total: 17", cache |-> c, ext |-> {}]
      [] tool_name = "translate_runes" -> [content |-> "runes", cache |-> c, ext |-> {}]

\* variant of MayRaise: the branch for a name outside TOOL_MAP raises too
MayRaise_any(tool_name) == TRUE

\* _tool_node, lines 349-355: a call can raise only inside tool_func.invoke,
\* so only for a name in TOOL_MAP; the else branch builds a string
MayRaise(tool_name) == tool_name \in TOOL_MAP

\* result of call number i of a round when it is not in TOOL_MAP (line 354)
UnknownTool(tool_name, c) ==
    [content |-> "Unknown tool: " \o tool_name, cache |-> c, ext |-> {}]

RECURSIVE CacheAfter(_, _, _, _, _, _)
\* _history_cache after calls[1..n] of a round have returned, starting from c
CacheAfter(calls, n, t, c, tbl, readOk) ==
    IF n = 0 THEN c
    ELSE IF calls[n].name \in TOOL_MAP
         THEN ToolInvoke(calls[n].name, InjectContext(calls[n].name, calls[n].args, t),
                         CacheAfter(calls, n - 1, t, c, tbl, readOk), tbl, readOk).cache
         ELSE CacheAfter(calls, n - 1, t, c, tbl, readOk)

\* _tool_node, lines 339-367: the loop over tool_calls[1..n], all returning.
\* cache: the cache afterwards, ext: services called, invoked: (tool,
\* arguments) pairs handed to tool_func.invoke, executed: entries appended to
\* tools_executed, tool_messages: the ToolMessages of the round
RunTools(calls, n, t, c, tbl, readOk) ==
    LET tool_args(i) == InjectContext(calls[i].name, calls[i].args, t)
        known == {i \in 1..n : calls[i].name \in TOOL_MAP}
        r(i) == IF i \in known
                THEN ToolInvoke(calls[i].name, tool_args(i),
                                CacheAfter(calls, i - 1, t, c, tbl, readOk), tbl, readOk)
                ELSE UnknownTool(calls[i].name, c)
    IN  [cache |-> CacheAfter(calls, n, t, c, tbl, readOk),
         ext |-> UNION {r(i).ext : i \in known},
         invoked |-> {[name |-> calls[i].name, args |-> tool_args(i)] : i \in known},
         executed |-> [i \in 1..n |-> ToolEntry(calls[i].name, tool_args(i))],
         tool_messages |-> [i \in 1..n |-> ToolMessage(r(i).content, calls[i].id)]]

----------------------------------------------------------------------------
(* agent.py: main() and the graph of AgentGraphBuilder.build() *)

NoResult == [kind |-> "none", text |-> "", userId |-> NoneVal, campaign |-> NoneVal,
             sessionId |-> NoneVal]
ErrorResult(text) == [NoResult EXCEPT !.kind = "error", !.text = text]

NoTurn == [user_id |-> NoneVal, campaign |-> NoneVal, session_id |-> NoneVal,
           user_message |-> NoneVal, history_messages |-> <<>>]

\* main(), lines 481-495: the session id of the request and the two checks.
\* "" is returned for a request that passes.
SessionOf(req) ==
    IF req.sessionId = NoneVal THEN DefaultSession(req.userId, req.campaign) ELSE req.sessionId

\* variant of the checks without the session prefix test (lines 492-495)
Validate_no_prefix(req) ==
    IF ~(Truthy(req.userId) /\ Truthy(req.campaign) /\ Truthy(req.prompt))
    THEN "Missing required parameters: userId, campaign, prompt"
    ELSE ""

Validate(req) ==
    IF ~(Truthy(req.userId) /\ Truthy(req.campaign) /\ Truthy(req.prompt))
    THEN "Missing required parameters: userId, campaign, prompt"
    ELSE IF ~startswith(SessionOf(req), req.userId \o "-")
    THEN "Invalid session: session does not belong to the authenticated user"
    ELSE ""

\* variant of iteration_count: the latest tool-calling message is not counted
iteration_count_short(msgs) ==
    Cardinality({i \in DOMAIN msgs : msgs[i].type = "ai" /\ msgs[i].tool_calls # <<>>}) - 1

\* variant of iteration_count: every AI message counts, a reply of an
\* earlier turn included
iteration_count_all_ai(msgs) ==
    Cardinality({i \in DOMAIN msgs : msgs[i].type = "ai"})

\* _agent_node, lines 310-313
iteration_count(msgs) ==
    Cardinality({i \in DOMAIN msgs : msgs[i].type = "ai" /\ msgs[i].tool_calls # <<>>})

\* variant of the cap test: the planner is skipped one round later
capped_late(msgs) == iteration_count(msgs) > MAX_ITERATIONS

\* _agent_node, line 317
capped(msgs) == iteration_count(msgs) >= MAX_ITERATIONS

\* variant of _should_continue: looks at every message, not at the last one
should_continue_any(msgs) ==
    IF \E i \in DOMAIN msgs : msgs[i].tool_calls # <<>> THEN "tools" ELSE "END"

\* _should_continue
should_continue(msgs) == IF Last(msgs).tool_calls # <<>> THEN "tools" ELSE "END"

\* the node the graph runs after "agent" left msgs; END hands over to main()
AfterAgent(msgs) == IF should_continue(msgs) = "tools" THEN "tools" ELSE "respond"

\* get_tools_summary
RECURSIVE Bullets(_)
Bullets(entries) ==
    IF entries = <<>> THEN ""
    ELSE "- _" \o Head(entries) \o "_"
           \o (IF Tail(entries) = <<>> THEN "" ELSE "\n" \o Bullets(Tail(entries)))

\* variant of get_tools_summary: the rule is written for an empty list too
get_tools_summary_always(entries) == "\n\n---\n" \o Bullets(entries)

get_tools_summary(entries) ==
    IF entries = <<>> THEN "" ELSE "\n\n---\n" \o Bullets(entries)

\* variant of the passthrough test: any() in place of all()
passthrough_any(entries) ==
    LET tools_used == {entries[i] : i \in DOMAIN entries}
    IN  /\ tools_used # {}
        /\ \E tool \in tools_used : \E pt \in PASSTHROUGH_TOOLS : Contains(tool, pt)

\* main(), lines 527-531
passthrough_only(entries) ==
    LET tools_used == {entries[i] : i \in DOMAIN entries}
    IN  /\ tools_used # {}
        /\ \A tool \in tools_used : \E pt \in PASSTHROUGH_TOOLS : Contains(tool, pt)

IsToolMessage(m) == m.type = "tool"

\* one call of stream_callback: by the StreamingCallbackHandler of
\* creative_llm (lines 56-63, 86-88) or by main() itself (lines 537-538,
\* 547-548)
Delivery(caller, text) == [caller |-> caller, text |-> text]

\* no send
NotSent == [sent |-> <<>>, raised |-> FALSE]

\* variant of send_websocket_message without the except clauses: a send to a
\* closed connection raises into the caller
send_websocket_message_unguarded(open, content) ==
    [sent |-> IF open THEN <<content>> ELSE <<>>, raised |-> ~open]

\* main.py, send_websocket_message called by stream_callback (lines 26-50,
\* 98-108): post_to_connection on a closed connection raises GoneException,
\* which is caught, as is every other exception; stream_callback returns
\* False and main() does not read what it returns
send_websocket_message(open, content) ==
    [sent |-> IF open THEN <<content>> ELSE <<>>, raised |-> FALSE]

RECURSIVE tool_context(_)
\* "\n\n".join(msg.content for msg in tool_results), line 403
tool_context(tool_results) ==
    IF tool_results = <<>> THEN ""
    ELSE Head(tool_results).content
           \o (IF Tail(tool_results) = <<>> THEN ""
               ELSE "\n\n" \o tool_context(Tail(tool_results)))

\* variant of generate_final_response: only the last tool result is passed on
generate_final_response_last(user_message, history_messages, tool_results) ==
    <<SystemMessage("creative prompt")>> \o history_messages
        \o <<HumanMessage(user_message)>>
        \o (IF tool_results # <<>>
            THEN <<HumanMessage("Here is the information gathered from the campaign:\n\n"
                                  \o Last(tool_results).content
                                  \o "\n\nProvide a helpful response.")>>
            ELSE <<>>)

\* generate_final_response, lines 395-406: the list creative_llm is invoked
\* with
generate_final_response(user_message, history_messages, tool_results) ==
    <<SystemMessage("creative prompt")>> \o history_messages
        \o <<HumanMessage(user_message)>>
        \o (IF tool_results # <<>>
            THEN <<HumanMessage("Here is the information gathered from the campaign:\n\n"
                                  \o tool_context(tool_results)
                                  \o "\n\nProvide a helpful response.")>>
            ELSE <<>>)

\* a message handed to send_websocket_message (main.py, lines 29-32)
WsMessage(message_type, content) == [type |-> message_type, content |-> content]

NoSocket == [phase |-> "idle", sent |-> <<>>, statusCode |-> 0, invoked |-> FALSE,
             agent_result |-> "none"]

\* variant of the end of lambda_handler: the return after the error message
\* is missing, so the completion signal follows it
terminal_messages_no_return(res) ==
    IF res.kind = "error"
    THEN <<WsMessage("error", res.text), WsMessage("complete", "")>>
    ELSE <<WsMessage("complete", "")>>

\* lambda_handler, lines 114-123: what is sent once agent_main has returned
terminal_messages(res) ==
    IF res.kind = "error" THEN <<WsMessage("error", res.text)>>
    ELSE <<WsMessage("complete", "")>>

\* stream_callback, lines 98-108: every chunk it is handed goes to
\* send_websocket_message as a message of type 'chunk'
ChunkSends(deliveries) ==
    [i \in DOMAIN deliveries |-> WsMessage("chunk", deliveries[i].text)]

\* variant of the except clause: the turn goes on to the history write
Abort_then_save(phase) ==
    /\ pc' = "save"
    /\ raisedIn' = phase
    /\ result' = ErrorResult(phase \o " failed")

\* the except clause of main(): the turn ends with {'error': str(e)}
Abort(phase) ==
    /\ pc' = "done"
    /\ raisedIn' = phase
    /\ result' = ErrorResult(phase \o " failed")

\* main() up to agent.invoke: validation, history and context loading,
\* construction of the graph and of the planning messages
MainRequest(req) ==
    /\ pc = "idle"
    /\ turns < MaxTurns
    /\ turns' = turns + 1
    /\ storeAtStart' = store
    /\ cacheAtStart' = history_cache
    /\ tools_executed' = <<>>
    /\ response_text' = ""
    /\ invoked' = {}
    /\ planCalls' = 0
    /\ genCalls' = 0
    /\ toolRounds' = 0
    /\ raisedIn' = "none"
    /\ streamed' = <<>>
    /\ delivered' = <<>>
    /\ final_messages' = <<>>
    /\ UNCHANGED <<store, creator, connected, other_cache>>
    /\ IF Validate(req) # ""
       THEN /\ result' = ErrorResult(Validate(req))
            /\ savedBefore' = <<>>
            /\ loadedFrom' = "none"
            /\ UNCHANGED pendingSave
            /\ pc' = "done"
            /\ turn' = [NoTurn EXCEPT !.user_id = req.userId, !.campaign = req.campaign,
                                      !.session_id = SessionOf(req),
                                      !.user_message = req.prompt]
            /\ messages' = <<>>
            /\ extCalls' = {}
            /\ UNCHANGED history_cache
       ELSE \E readOk, ctxOk \in BOOLEAN :
              LET h == get_history_messages(SessionOf(req), 2, history_cache, store, readOk)
              IN  /\ result' = NoResult
                  /\ pc' = "agent"
                  /\ history_cache' = h.cache
                  /\ turn' = [user_id |-> req.userId, campaign |-> req.campaign,
                              session_id |-> SessionOf(req), user_message |-> req.prompt,
                              history_messages |-> h.ret]
                  /\ messages' = <<SystemMessage("planning prompt")>> \o h.ret
                                   \o <<HumanMessage(req.prompt)>>
                  /\ extCalls' = (IF h.read THEN {"history"} ELSE {})
                                   \cup {"embedding"}
                                   \cup (IF ctxOk THEN {"vector"} ELSE {})
                  /\ savedBefore' = pendingSave[SessionOf(req)]
                  /\ pendingSave' = [pendingSave EXCEPT ![SessionOf(req)] = <<>>]
                  /\ loadedFrom' = IF ~h.read THEN "cache"
                                   ELSE IF readOk THEN "store" ELSE "failed"

\* variant of PlanningStream: the planning model has the stream handler too
PlanningStream_attached(tool_calls) == <<Delivery("planning_llm", "plan")>>

\* create_planning_llm, lines 70-81: streaming=False and no callbacks, so
\* nothing of a planning response is handed to the stream callback
PlanningStream(tool_calls) == <<>>

\* executions of _agent_node in this turn: the AI messages after the prompt
AgentRuns ==
    Cardinality({i \in DOMAIN messages :
                    i > Len(turn.history_messages) + 2 /\ messages[i].type = "ai"})

\* _agent_node followed by _should_continue
AgentNode ==
    /\ pc = "agent"
    /\ AgentRuns < MaxAgentRuns
    /\ UNCHANGED <<turn, tools_executed, response_text, history_cache, store, invoked,
                   genCalls, toolRounds, storeAtStart, cacheAtStart, creator, pendingSave,
                   savedBefore, loadedFrom, turns, connected, delivered, final_messages,
                   other_cache>>
    /\ IF capped(messages)
       THEN /\ messages' = Append(messages, AIMessage("[MAX_ITERATIONS_REACHED]"))
            /\ pc' = AfterAgent(messages')
            /\ UNCHANGED <<planCalls, extCalls, raisedIn, result, streamed>>
       ELSE /\ planCalls' = planCalls + 1
            /\ extCalls' = extCalls \cup {"llm"}
            /\ \/ /\ Abort("planning")
                  /\ UNCHANGED <<messages, streamed>>
               \/ \E tool_calls \in PlannerOutputs :
                     /\ messages' = Append(messages,
                                       IF tool_calls # <<>>
                                       THEN Msg("ai", "", tool_calls, "")
                                       ELSE AIMessage("[PLANNING_COMPLETE]"))
                     /\ streamed' = streamed \o PlanningStream(tool_calls)
                     /\ pc' = AfterAgent(messages')
                     /\ UNCHANGED <<raisedIn, result>>

\* _tool_node, then the edge back to "agent".  failAt = 0: every call
\* returns; otherwise call number failAt raises out of the node.
ToolNode ==
    /\ pc = "tools"
    /\ UNCHANGED <<turn, response_text, store, planCalls, genCalls, storeAtStart,
                   cacheAtStart, creator, pendingSave, savedBefore, loadedFrom, turns,
                   streamed, connected, delivered, final_messages, other_cache>>
    /\ toolRounds' = toolRounds + 1
    /\ \E failAt \in 0..Len(Last(messages).tool_calls), readOk \in BOOLEAN :
         LET tool_calls == Last(messages).tool_calls
             n == IF failAt = 0 THEN Len(tool_calls) ELSE failAt - 1
             st == RunTools(tool_calls, n, turn, history_cache, store, readOk)
         IN  /\ history_cache' = st.cache
             /\ extCalls' = extCalls \cup st.ext
             /\ tools_executed' = tools_executed \o st.executed
             /\ IF failAt = 0
                THEN /\ invoked' = invoked \cup st.invoked
                     /\ messages' = messages \o st.tool_messages
                     /\ pc' = "agent"
                     /\ UNCHANGED <<raisedIn, result>>
                ELSE /\ MayRaise(tool_calls[failAt].name)
                     /\ invoked' = invoked \cup st.invoked \cup
                            {[name |-> tool_calls[failAt].name,
                              args |-> InjectContext(tool_calls[failAt].name,
                                                     tool_calls[failAt].args, turn)]}
                     /\ Abort("tool")
                     /\ UNCHANGED messages

\* main(), lines 523-541: passthrough or generate_final_response
Respond ==
    /\ pc = "respond"
    /\ UNCHANGED <<turn, messages, tools_executed, history_cache, store, invoked, planCalls,
                   toolRounds, storeAtStart, cacheAtStart, creator, pendingSave, savedBefore,
                   loadedFrom, turns, connected, other_cache>>
    /\ LET tool_results == SelectSeq(messages, IsToolMessage)
       IN  IF passthrough_only(tools_executed) /\ tool_results # <<>>
           THEN LET snd == send_websocket_message(connected, Last(tool_results).content)
                IN  /\ response_text' = Last(tool_results).content
                    /\ streamed' = Append(streamed, Delivery("main", response_text'))
                    /\ delivered' = delivered \o snd.sent
                    /\ UNCHANGED <<genCalls, extCalls, final_messages>>
                    /\ IF snd.raised
                       THEN Abort("delivery")
                       ELSE pc' = "save" /\ UNCHANGED <<raisedIn, result>>
           ELSE /\ genCalls' = genCalls + 1
                /\ extCalls' = extCalls \cup {"llm"}
                /\ final_messages' = generate_final_response(turn.user_message,
                                                             turn.history_messages,
                                                             tool_results)
                /\ \/ \* the call raises, before or after its first tokens
                      /\ Abort("generation")
                      /\ UNCHANGED response_text
                      /\ \/ UNCHANGED <<streamed, delivered>>
                         \/ /\ streamed' = Append(streamed, Delivery("creative_llm", "ans"))
                            /\ delivered' =
                                  delivered \o send_websocket_message(connected, "ans").sent
                   \/ /\ response_text' = "answer"
                      /\ streamed' = Append(streamed, Delivery("creative_llm", "answer"))
                      /\ delivered' =
                            delivered \o send_websocket_message(connected, "answer").sent
                      /\ pc' = "save"
                      /\ UNCHANGED <<raisedIn, result>>

\* main(), lines 543-565: tools summary, save_messages, return
Save ==
    /\ pc = "save"
    /\ UNCHANGED <<turn, messages, tools_executed, response_text, invoked, planCalls,
                   genCalls, toolRounds, storeAtStart, cacheAtStart, savedBefore,
                   loadedFrom, turns, connected, final_messages, other_cache>>
    /\ \E writeOk \in BOOLEAN :
         LET tools_summary == get_tools_summary(tools_executed)
             snd == IF tools_summary # ""
                    THEN send_websocket_message(connected, tools_summary)
                    ELSE NotSent
             saved == IF snd.raised THEN [store |-> store, cache |-> history_cache]
                      ELSE save_messages(turn.session_id, turn.user_message, response_text,
                                         history_cache, store, writeOk)
         IN  /\ store' = saved.store
             /\ history_cache' = saved.cache
             /\ streamed' = IF tools_summary # ""
                            THEN Append(streamed, Delivery("main", tools_summary))
                            ELSE streamed
             /\ delivered' = delivered \o snd.sent
             /\ IF snd.raised
                THEN /\ Abort("delivery")
                     /\ UNCHANGED <<extCalls, pendingSave, creator>>
                ELSE /\ UNCHANGED raisedIn
                     /\ extCalls' = extCalls \cup {"history"}
                     /\ pendingSave' = IF writeOk
                                       THEN [pendingSave EXCEPT ![turn.session_id] =
                                                <<HumanMessage(turn.user_message),
                                                  AIMessage(response_text)>>]
                                       ELSE pendingSave
                     /\ creator' = IF writeOk /\ creator[turn.session_id] = NoneVal
                                   THEN [creator EXCEPT ![turn.session_id] = turn.user_id]
                                   ELSE creator
                     /\ result' = [kind |-> "response",
                                   text |-> response_text \o tools_summary,
                                   userId |-> turn.user_id, campaign |-> turn.campaign,
                                   sessionId |-> turn.session_id]
                     /\ pc' = "done"

\* main() has returned: the caller takes the result, the locals of the
\* invocation and the graph are dropped; the cache and the table stay
Return ==
    /\ pc = "done"
    /\ pc' = "idle"
    /\ turn' = NoTurn
    /\ messages' = <<>>
    /\ tools_executed' = <<>>
    /\ response_text' = ""
    /\ result' = NoResult
    /\ extCalls' = {}
    /\ invoked' = {}
    /\ planCalls' = 0
    /\ genCalls' = 0
    /\ toolRounds' = 0
    /\ raisedIn' = "none"
    /\ storeAtStart' = store
    /\ cacheAtStart' = history_cache
    /\ savedBefore' = <<>>
    /\ loadedFrom' = "none"
    /\ streamed' = <<>>
    /\ delivered' = <<>>
    /\ final_messages' = <<>>
    /\ connected' = TRUE
    /\ UNCHANGED <<history_cache, store, creator, pendingSave, turns, other_cache>>

----------------------------------------------------------------------------
(* sessions/handler.py *)

NoSessResp == [status |-> 0, kind |-> "none", user |-> NoneVal, sessionId |-> NoneVal,
               messages |-> <<>>, sessions |-> {}]

\* the table holds an item for a session once something was written to it
HasItem(t, session_id) == t[session_id] # <<>>

\* get_session_history; dbOk: table.get_item returns
get_session_history(user_id, session_id, t, dbOk) ==
    IF ~startswith(session_id, user_id \o "-")
    THEN [NoSessResp EXCEPT !.status = 400, !.kind = "error", !.user = user_id,
                            !.sessionId = session_id]
    ELSE IF ~dbOk
    THEN [NoSessResp EXCEPT !.status = 500, !.kind = "error", !.user = user_id,
                            !.sessionId = session_id]
    ELSE IF ~HasItem(t, session_id)
    THEN [NoSessResp EXCEPT !.status = 400, !.kind = "error", !.user = user_id,
                            !.sessionId = session_id]
    ELSE [NoSessResp EXCEPT !.status = 200, !.kind = "history", !.user = user_id,
                            !.sessionId = session_id, !.messages = t[session_id]]

\* list_user_sessions; dbOk: table.scan returns
list_user_sessions(user_id, t, dbOk) ==
    IF ~dbOk
    THEN [NoSessResp EXCEPT !.status = 500, !.kind = "error", !.user = user_id]
    ELSE [NoSessResp EXCEPT !.status = 200, !.kind = "list", !.user = user_id,
             !.sessions = {[sessionId |-> sid, messageCount |-> Len(t[sid])] :
                              sid \in {x \in SessionIds :
                                          HasItem(t, x) /\ startswith(x, user_id \o "-")}}]

\* lambda_handler of the sessions lambda; session_id = NoneVal: no path
\* parameter.  The handler only reads the table, which only Save writes, and
\* Save ends the turn: a request served while a turn is running sees what a
\* request served just before that turn sees, so requests are taken between
\* turns.
SessionRequest(user_id, session_id) ==
    /\ pc = "idle"
    /\ UNCHANGED turnVars
    /\ \E dbOk \in BOOLEAN :
         sessResp' = IF ~Truthy(user_id)
                     THEN [NoSessResp EXCEPT !.status = 401, !.kind = "error"]
                     ELSE IF Truthy(session_id)
                     THEN get_session_history(user_id, session_id, store, dbOk)
                     ELSE list_user_sessions(user_id, store, dbOk)

----------------------------------------------------------------------------
(* indexing/handler.py: chunk_text *)

CHUNK_SIZE == 800
CHUNK_OVERLAP == 100
TOP_K == 30
BATCH_SIZE == 500

Min(a, b) == IF a < b THEN a ELSE b
Max(a, b) == IF a > b THEN a ELSE b

\* text[j], j counted from 0 as in Python
CharAt(text, j) == SubSeq(text, j + 1, j + 1)
\* text[a:b]
Slice(text, a, b) == SubSeq(text, a + 1, b)

\* \s of the regular expression (the characters a TLA+ string can hold)
Whitespace == {" ", "\t", "\n", "\r", "\f"}
SentenceEnd == {".", "!", "?"}

\* not text.strip()
IsBlank(text) == \A j \in 0..(Len(text) - 1) : CharAt(text, j) \in Whitespace

\* end offsets, relative to the window text[a:b], of the matches of
\* r'[.!?][\s\n]' in the window
MatchEnds(text, a, b) ==
    {j + 2 - a : j \in {x \in a..(b - 2) : /\ CharAt(text, x) \in SentenceEnd
                                           /\ CharAt(text, x + 1) \in Whitespace}}

SetMax(S) == CHOOSE x \in S : \A y \in S : y <= x

\* variant of ChunkEnd: the window is half the chunk size
ChunkEnd_half(text, chunk_size, start) ==
    Min(start + Max(1, chunk_size \div 2), Len(text))

\* end of the chunk that starts at start (lines 45-52)
ChunkEnd(text, chunk_size, start) ==
    LET end == Min(start + chunk_size, Len(text))
        search_start == Max(start, end - ((chunk_size * 2) \div 10))
        matches == MatchEnds(text, search_start, end)
    IN  IF end < Len(text) /\ matches # {} THEN search_start + SetMax(matches) ELSE end

RECURSIVE ChunkLoop(_, _, _, _, _)
\* variant of ChunkLoop: the next window starts where the chunk ends
ChunkLoop_no_overlap(text, chunk_size, overlap, start, chunks) ==
    IF ~(start < Len(text)) THEN chunks
    ELSE LET end == ChunkEnd(text, chunk_size, start)
             chunk == [text |-> Slice(text, start, end), chunkIndex |-> Len(chunks),
                       totalChunks |-> 0, startPosition |-> start, endPosition |-> end]
         IN  ChunkLoop(text, chunk_size, overlap, end, Append(chunks, chunk))

\* variant of ChunkLoop: the next window starts one character after
\* end - overlap
ChunkLoop_gap(text, chunk_size, overlap, start, chunks) ==
    IF ~(start < Len(text)) THEN chunks
    ELSE LET end == ChunkEnd(text, chunk_size, start)
             chunk == [text |-> Slice(text, start, end), chunkIndex |-> Len(chunks),
                       totalChunks |-> 0, startPosition |-> start, endPosition |-> end]
             next == IF end < Len(text) THEN end - overlap + 1 ELSE end
         IN  ChunkLoop(text, chunk_size, overlap,
                       IF next <= start THEN end + 1 ELSE next,
                       Append(chunks, chunk))

\* variant of ChunkLoop: a window that did not advance is cut once more
\* before the loop moves on to end
ChunkLoop_stall(text, chunk_size, overlap, start, chunks) ==
    IF ~(start < Len(text)) THEN chunks
    ELSE LET end == ChunkEnd(text, chunk_size, start)
             chunk == [text |-> Slice(text, start, end), chunkIndex |-> Len(chunks),
                       totalChunks |-> 0, startPosition |-> start, endPosition |-> end]
             again == [chunk EXCEPT !.chunkIndex = Len(chunks) + 1]
             next == IF end < Len(text) THEN end - overlap ELSE end
         IN  IF next <= start
             THEN ChunkLoop(text, chunk_size, overlap, end,
                            Append(Append(chunks, chunk), again))
             ELSE ChunkLoop(text, chunk_size, overlap, next, Append(chunks, chunk))

\* the while loop (lines 44-64); totalChunks is filled in afterwards
ChunkLoop(text, chunk_size, overlap, start, chunks) ==
    IF ~(start < Len(text)) THEN chunks
    ELSE LET end == ChunkEnd(text, chunk_size, start)
             chunk == [text |-> Slice(text, start, end), chunkIndex |-> Len(chunks),
                       totalChunks |-> 0, startPosition |-> start, endPosition |-> end]
             next == IF end < Len(text) THEN end - overlap ELSE end
         IN  ChunkLoop(text, chunk_size, overlap,
                       IF next <= start THEN end ELSE next,
                       Append(chunks, chunk))

\* variant of chunk_text without the test for an empty or blank text
chunk_text_no_blank_test(text, chunk_size, overlap) ==
    IF Len(text) <= chunk_size
    THEN <<[text |-> text, chunkIndex |-> 0, totalChunks |-> 1, startPosition |-> 0,
            endPosition |-> Len(text)]>>
    ELSE LET chunks == ChunkLoop(text, chunk_size, overlap, 0, <<>>)
         IN  [i \in 1..Len(chunks) |-> [chunks[i] EXCEPT !.totalChunks = Len(chunks)]]

chunk_text(text, chunk_size, overlap) ==
    IF text = "" \/ IsBlank(text) THEN <<>>
    ELSE IF Len(text) <= chunk_size
    THEN <<[text |-> text, chunkIndex |-> 0, totalChunks |-> 1, startPosition |-> 0,
            endPosition |-> Len(text)]>>
    ELSE LET chunks == ChunkLoop(text, chunk_size, overlap, 0, <<>>)
         IN  [i \in 1..Len(chunks) |-> [chunks[i] EXCEPT !.totalChunks = Len(chunks)]]

----------------------------------------------------------------------------
(* Documents and index requests *)

RECURSIVE Repeat(_, _)
Repeat(str, n) ==
    IF n = 0 THEN ""
    ELSE IF n % 2 = 0 THEN LET h == Repeat(str, n \div 2) IN h \o h
    ELSE str \o Repeat(str, n - 1)

\* a 2,000-character document with one sentence end, and a 500-character one
LongDoc == Repeat("a", 749) \o ". " \o Repeat("b", 1249)
ShortDoc == Repeat("c", 500)

Contents == {LongDoc, ShortDoc, NoneVal}
FilePaths == {"npcs/sildar.md", NoneVal}
\* concurrent invocations of the indexing lambda
Workers == {1, 2}

\* event of index_handler: the Cognito user, the body fields, and whether a
\* string body parses as JSON
IndexEvents == [user : {UserA, NoneVal}, campaign : Campaigns, filePath : FilePaths,
                content : Contents, json_ok : BOOLEAN]

\* chunk_text(content, CHUNK_SIZE, CHUNK_OVERLAP) of each document
ChunksOf == [c \in Contents \ {NoneVal} |-> chunk_text(c, CHUNK_SIZE, CHUNK_OVERLAP)]

----------------------------------------------------------------------------
(* indexing/handler.py: index_handler *)

RECURSIVE Replace(_, _, _)
\* str.replace for single characters
Replace(str, a, b) ==
    IF str = "" THEN ""
    ELSE (IF CharAt(str, 0) = a THEN b ELSE CharAt(str, 0))
           \o Replace(Slice(str, 1, Len(str)), a, b)

\* line 242-243
vector_key(user_id, campaign, file_path, chunkIndex) ==
    user_id \o "#" \o campaign \o "#" \o Replace(file_path, "/", "|")
            \o "#" \o ToString(chunkIndex)

\* line 208
s3_key(user_id, campaign, file_path) == user_id \o "/" \o campaign \o "/" \o file_path

\* a path that differs from the one of FilePaths in one character
BarPath == "npcs|sildar.md"

S3Keys ==
    {s3_key(u, c, f) : u \in {UserA}, c \in {Campaign},
                       f \in (FilePaths \ {NoneVal}) \cup {BarPath}}

\* lines 245-259 (indexedAt left out).  The metadata has no category and no
\* filename key: both are NoneVal in a record written by index_handler.
VectorRecord(user_id, campaign, file_path, chunk) ==
    [key |-> vector_key(user_id, campaign, file_path, chunk.chunkIndex),
     userId |-> user_id, campaign |-> campaign, filePath |-> file_path,
     category |-> NoneVal, filename |-> NoneVal,
     chunkText |-> chunk.text, chunkIndex |-> chunk.chunkIndex,
     totalChunks |-> chunk.totalChunks, startPosition |-> chunk.startPosition,
     endPosition |-> chunk.endPosition]

\* records matching the filter of delete_existing_vectors (lines 116-122)
FileRecords(V, user_id, campaign, file_path) ==
    {v \in V : v.userId = user_id /\ v.campaign = campaign /\ v.filePath = file_path}

Keys(V) == {v.key : v \in V}

\* put_vectors: a record replaces the stored record with the same key
Upsert(V, batch) == {v \in V : v.key \notin Keys(batch)} \cup batch

NoIndexResp == [statusCode |-> 0, chunksProcessed |-> 0, chunksDeleted |-> 0]

IdleWorker == [pc |-> "idle", user_id |-> NoneVal, campaign |-> NoneVal,
               file_path |-> NoneVal, content |-> NoneVal, deleted_count |-> 0,
               found |-> {}, chunks |-> <<>>, next_chunk |-> 1, vectors_to_insert |-> <<>>,
               chunks_stored |-> 0, ext |-> {}, failed |-> {}, started_after |-> 0,
               at_start |-> 0, pages |-> <<>>, removed |-> 0,
               resp |-> NoIndexResp]

\* lines 161-198: "" for an event that passes
IndexValidate(ev) ==
    IF ~ev.json_ok THEN "Invalid JSON in request body"
    ELSE IF ~(Truthy(ev.user) /\ Truthy(ev.campaign) /\ Truthy(ev.filePath)
              /\ Truthy(ev.content))
    THEN "Missing required parameters: userId, campaign, filePath, content"
    ELSE ""

\* another invocation is working on the file of worker w
OthersOnFile(w, X) ==
    \E o \in Workers \ {w} :
        /\ X[o].pc # "idle"
        /\ X[o].user_id = X[w].user_id
        /\ X[o].campaign = X[w].campaign
        /\ X[o].file_path = X[w].file_path

\* ilog with entry e added
Logged(e) == LastN(Append(ilog, e), MaxLog)

\* the entry written to ilog when worker w, in state wr, returns with V stored;
\* failed: the calls of the request that raised or returned nothing,
\* removed: how many records its delete_vectors calls took out of the index,
\* embedded: keys of the chunks that got an embedding,
\* keysAfter, blobAfter: the keys stored for the file and the object stored
\* under its S3 key when the request returns,
\* seq: how many requests had returned before this one returned,
\* started_after: how many had returned when this one arrived
LogEntry(w, wr, V) ==
    [user_id |-> wr.user_id, campaign |-> wr.campaign, file_path |-> wr.file_path,
     content |-> wr.content, statusCode |-> wr.resp.statusCode,
     chunksProcessed |-> wr.resp.chunksProcessed, chunksDeleted |-> wr.resp.chunksDeleted,
     ext |-> wr.ext, failed |-> wr.failed, removed |-> wr.removed,
     embedded |-> {wr.vectors_to_insert[i].key : i \in DOMAIN wr.vectors_to_insert},
     seq |-> returned, started_after |-> wr.started_after,
     keysAfter |-> Keys(FileRecords(V, wr.user_id, wr.campaign, wr.file_path)),
     blobAfter |-> blobs[s3_key(wr.user_id, wr.campaign, wr.file_path)],
     alone |-> ~OthersOnFile(w, ix)]

\* the entry of a request turned away by the checks of lines 161-198
RejectedEntry ==
    [user_id |-> NoneVal, campaign |-> NoneVal, file_path |-> NoneVal, content |-> NoneVal,
     statusCode |-> 400, chunksProcessed |-> 0, chunksDeleted |-> 0, ext |-> {},
     failed |-> {}, removed |-> 0, embedded |-> {},
     seq |-> returned, started_after |-> returned, keysAfter |-> {},
     blobAfter |-> NoneVal, alone |-> TRUE]

\* index_handler returns statusCode from worker state wr: the response is
\* logged and the locals of the invocation are dropped
IndexFinish(w, wr, statusCode, V) ==
    LET done == [wr EXCEPT !.pc = "done",
                           !.resp = [statusCode |-> statusCode,
                                     chunksProcessed |-> IF statusCode = 200
                                                         THEN wr.chunks_stored ELSE 0,
                                     chunksDeleted |-> IF statusCode = 200
                                                       THEN wr.deleted_count ELSE 0]]
    IN  /\ ix' = [ix EXCEPT ![w] = IdleWorker]
        /\ ilog' = Logged(LogEntry(w, done, V))
        /\ returned' = returned + 1

\* lines 158-198: parse and validate the event; the request is served by the
\* first free invocation
IndexRequest(w, ev) ==
    /\ ix[w].pc = "idle"
    /\ \A o \in Workers : o < w => ix[o].pc # "idle"
    /\ indexOps < MaxIndexOps
    /\ indexOps' = indexOps + 1
    /\ UNCHANGED <<vectors, blobs>>
    /\ ilog' = IF IndexValidate(ev) # "" THEN Logged(RejectedEntry) ELSE ilog
    /\ returned' = IF IndexValidate(ev) # "" THEN returned + 1 ELSE returned
    /\ ix' = [ix EXCEPT ![w] =
                IF IndexValidate(ev) # "" THEN IdleWorker
                ELSE [IdleWorker EXCEPT !.pc = "query", !.user_id = ev.user,
                                        !.campaign = ev.campaign,
                                        !.file_path = ev.filePath,
                                        !.content = ev.content,
                                        !.started_after = returned,
                                        !.at_start = Cardinality(
                                            FileRecords(vectors, ev.user, ev.campaign,
                                                        ev.filePath))]]

\* the answers query_vectors(topK = 30) can give in the delete phase: all the
\* matching records when there are at most 30, and otherwise 30 of them.  The
\* query vector is random and the loop reads only the keys of the answer, so
\* of the selections of 30 the one with the lowest and the one with the
\* highest chunk numbers are taken.
QueryPage(matching) ==
    IF Cardinality(matching) <= TOP_K THEN {matching}
    ELSE {{v \in matching :
              Cardinality({u \in matching : u.chunkIndex < v.chunkIndex}) < TOP_K},
          {v \in matching :
              Cardinality({u \in matching : u.chunkIndex > v.chunkIndex}) < TOP_K}}

\* variant of DeleteQuery: a raising query ends the request with 500
DeleteQuery_abort(w) ==
    /\ ix[w].pc = "query"
    /\ UNCHANGED <<vectors, blobs, indexOps>>
    /\ \/ IndexFinish(w, [ix[w] EXCEPT !.ext = @ \cup {"vector"},
                                       !.failed = @ \cup {"query_vectors"}], 500, vectors)
       \/ LET matching == FileRecords(vectors, ix[w].user_id, ix[w].campaign, ix[w].file_path)
          IN  \E found \in QueryPage(matching) :
                /\ ix' = [ix EXCEPT ![w].pc = IF found = {} THEN "put_object" ELSE "delete",
                                    ![w].found = found,
                                    ![w].pages = Append(@, Cardinality(found)),
                                    ![w].ext = @ \cup {"vector"}]
                /\ UNCHANGED <<ilog, returned>>

\* delete_existing_vectors, lines 109-129: one query_vectors call
DeleteQuery(w) ==
    /\ ix[w].pc = "query"
    /\ UNCHANGED <<vectors, blobs, ilog, returned, indexOps>>
    /\ \/ \* the call raises: the except clause returns 0
          ix' = [ix EXCEPT ![w].pc = "put_object", ![w].deleted_count = 0,
                           ![w].ext = @ \cup {"vector"},
                           ![w].failed = @ \cup {"query_vectors"}]
       \/ LET matching == FileRecords(vectors, ix[w].user_id, ix[w].campaign, ix[w].file_path)
          IN  \E found \in QueryPage(matching) :
                /\ ix' = [ix EXCEPT ![w].pc = IF found = {} THEN "put_object" ELSE "delete",
                                    ![w].found = found,
                                    ![w].pages = Append(@, Cardinality(found)),
                                    ![w].ext = @ \cup {"vector"}]

\* variant of DeleteVectors: the loop ends after the first page
DeleteVectors_one_page(w) ==
    /\ ix[w].pc = "delete"
    /\ UNCHANGED <<blobs, ilog, returned, indexOps>>
    /\ \/ /\ ix' = [ix EXCEPT ![w].pc = "put_object", ![w].deleted_count = 0,
                              ![w].found = {},
                              ![w].failed = @ \cup {"delete_vectors"}]
          /\ UNCHANGED vectors
       \/ /\ vectors' = {v \in vectors : v.key \notin Keys(ix[w].found)}
          /\ ix' = [ix EXCEPT ![w].pc = "put_object",
                              ![w].deleted_count = @ + Cardinality(ix[w].found),
                              ![w].removed = @ + Cardinality(Keys(vectors)
                                                             \cap Keys(ix[w].found)),
                              ![w].found = {}]

\* delete_existing_vectors, lines 132-145: one delete_vectors call
DeleteVectors(w) ==
    /\ ix[w].pc = "delete"
    /\ UNCHANGED <<blobs, ilog, returned, indexOps>>
    /\ \/ \* the call raises: the except clause returns 0
          /\ ix' = [ix EXCEPT ![w].pc = "put_object", ![w].deleted_count = 0,
                              ![w].found = {},
                              ![w].failed = @ \cup {"delete_vectors"}]
          /\ UNCHANGED vectors
       \/ /\ vectors' = {v \in vectors : v.key \notin Keys(ix[w].found)}
          /\ ix' = [ix EXCEPT ![w].pc = IF Cardinality(ix[w].found) < TOP_K
                                        THEN "put_object" ELSE "query",
                              ![w].deleted_count = @ + Cardinality(ix[w].found),
                              ![w].removed = @ + Cardinality(Keys(vectors)
                                                             \cap Keys(ix[w].found)),
                              ![w].found = {}]

\* lines 207-227: put_object, then chunk_text
PutObject(w) ==
    /\ ix[w].pc = "put_object"
    /\ UNCHANGED <<vectors, indexOps>>
    /\ \/ \* put_object raises
          /\ IndexFinish(w, [ix[w] EXCEPT !.ext = @ \cup {"blob"},
                                          !.failed = @ \cup {"put_object"}], 500, vectors)
          /\ UNCHANGED blobs
       \/ /\ blobs' = [blobs EXCEPT ![s3_key(ix[w].user_id, ix[w].campaign, ix[w].file_path)]
                                      = ix[w].content]
          /\ ix' = [ix EXCEPT ![w].pc = IF ChunksOf[ix[w].content] = <<>>
                                        THEN "put_vectors" ELSE "embed",
                              ![w].chunks = ChunksOf[ix[w].content],
                              ![w].next_chunk = 1,
                              ![w].ext = @ \cup {"blob"}]
          /\ UNCHANGED <<ilog, returned>>

\* lines 233-259: one iteration of the loop over chunks
Embed(w) ==
    /\ ix[w].pc = "embed"
    /\ UNCHANGED <<vectors, blobs, indexOps>>
    /\ LET chunk == ix[w].chunks[ix[w].next_chunk]
           after == IF ix[w].next_chunk = Len(ix[w].chunks) THEN "put_vectors" ELSE "embed"
       IN  \/ \* invoke_model raises
              IndexFinish(w, [ix[w] EXCEPT !.ext = @ \cup {"embedding"},
                                           !.failed = @ \cup {"invoke_model"}], 500, vectors)
           \/ \* generate_embedding returns None: the chunk is skipped
              /\ ix' = [ix EXCEPT ![w].pc = after, ![w].next_chunk = @ + 1,
                                  ![w].ext = @ \cup {"embedding"},
                                  ![w].failed = @ \cup {"no_embedding"}]
              /\ UNCHANGED <<ilog, returned>>
           \/ /\ ix' = [ix EXCEPT ![w].pc = after, ![w].next_chunk = @ + 1,
                                  ![w].ext = @ \cup {"embedding"},
                                  ![w].vectors_to_insert =
                                      Append(@, VectorRecord(ix[w].user_id, ix[w].campaign,
                                                             ix[w].file_path, chunk))]
              /\ UNCHANGED <<ilog, returned>>

\* lines 262-294: one batch of put_vectors; the response once nothing is left
PutVectors(w) ==
    /\ ix[w].pc = "put_vectors"
    /\ UNCHANGED <<blobs, indexOps>>
    /\ LET todo == ix[w].vectors_to_insert
           from == ix[w].chunks_stored
           upto == Min(from + BATCH_SIZE, Len(todo))
           batch == {todo[i] : i \in (from + 1)..upto}
       IN  IF from >= Len(todo)
           THEN /\ IndexFinish(w, ix[w], 200, vectors)
                /\ UNCHANGED vectors
           ELSE \/ \* put_vectors raises
                   /\ IndexFinish(w, [ix[w] EXCEPT !.ext = @ \cup {"vector"},
                                                   !.failed = @ \cup {"put_vectors"}],
                                   500, vectors)
                   /\ UNCHANGED vectors
                \/ /\ vectors' = Upsert(vectors, batch)
                   /\ IF upto >= Len(todo)
                      THEN IndexFinish(w, [ix[w] EXCEPT !.chunks_stored = upto,
                                                        !.ext = @ \cup {"vector"}],
                                       200, vectors')
                      ELSE /\ ix' = [ix EXCEPT ![w].chunks_stored = upto,
                                               ![w].ext = @ \cup {"vector"}]
                           /\ UNCHANGED <<ilog, returned>>

----------------------------------------------------------------------------
(* tools/search_campaign.py *)

\* lines 76-84: the $and of one equality per key; NoneVal for a key the
\* filter has no condition on
metadata_filter(user_id, campaign, category) ==
    [userId |-> user_id, campaign |-> campaign,
     category |-> IF Truthy(category) THEN category ELSE NoneVal]

\* variant of the fallback filter: the collection is left out
metadata_filter_owner_only(user_id, campaign) ==
    [userId |-> user_id, campaign |-> NoneVal, category |-> NoneVal]

\* lines 104-109
metadata_filter_no_category(user_id, campaign) ==
    [userId |-> user_id, campaign |-> campaign, category |-> NoneVal]

FilterKeys == {"userId", "campaign", "category"}

\* the index evaluates a filter on the metadata of record v: a record
\* without the key does not satisfy an equality on it
Matches(v, filter) == \A k \in FilterKeys : filter[k] # NoneVal => v[k] = filter[k]

Matching(V, filter) == {v \in V : Matches(v, filter)}

\* query_vectors(topK, filter): the topK nearest records satisfying the
\* filter, nearest first.  The embeddings are opaque, so every order of every
\* selection of that size is a possible answer.
QueryVectors(V, filter, top_k) ==
    LET M == Matching(V, filter)
        n == Min(top_k, Cardinality(M))
    IN  {r \in [1..n -> M] : \A i, j \in 1..n : r[i] = r[j] => i = j}

\* metadata.get(key, 'unknown')
MetaOr(v, key) == IF v[key] = NoneVal THEN "unknown" ELSE v[key]

RECURSIVE formatted_results(_, _)
\* lines 126-137: the numbered snippets results[i..], joined by "\n"
formatted_results(results, i) ==
    IF i > Len(results) THEN ""
    ELSE "Result " \o ToString(i) \o " (from " \o MetaOr(results[i], "category") \o "/"
           \o MetaOr(results[i], "filename") \o "):\n" \o results[i].chunkText \o "\n"
           \o (IF i < Len(results) THEN "\n" \o formatted_results(results, i + 1) ELSE "")

\* line 124
NoResults(query, category) ==
    "No relevant information found in the campaign for query: '" \o query
        \o "' (category: " \o (IF Truthy(category) THEN category ELSE "all") \o ")"

\* variant of the retry test: the category is not looked at
NeedsRetry_any(results, category) == Len(results) = 0

\* line 102
NeedsRetry(results, category) == Len(results) = 0 /\ Truthy(category)

NoSearch == [pc |-> "none", query |-> "", category |-> NoneVal, top_k |-> 0,
             user_id |-> NoneVal, campaign |-> NoneVal, queries |-> <<>>,
             first |-> <<>>, results |-> <<>>, ret |-> "", ext |-> {}]

\* the call returns: queries were issued, first is the answer to the first
\* of them and results the list that is formatted
SearchReturned(call, queries, first, results) ==
    [call EXCEPT !.pc = "returned", !.queries = queries, !.first = first,
                 !.results = results, !.ext = {"embedding", "vector"},
                 !.ret = IF Len(results) = 0 THEN NoResults(call.query, call.category)
                         ELSE formatted_results(results, 1)]

\* the call raises after the given queries
SearchRaised(call, queries, first, ext) ==
    [call EXCEPT !.pc = "raised", !.queries = queries, !.first = first, !.ext = ext]

\* search_campaign(query, category, top_k, user_id, campaign) against the
\* index as it is now
search_campaign(query, category, top_k, user_id, campaign) ==
    LET call == [NoSearch EXCEPT !.query = query, !.category = category, !.top_k = top_k,
                                 !.user_id = user_id, !.campaign = campaign]
        f1 == metadata_filter(user_id, campaign, category)
        f2 == metadata_filter_no_category(user_id, campaign)
    IN  IF ~Truthy(user_id) \/ ~Truthy(campaign)
        THEN sq' = [call EXCEPT !.pc = "returned",
                                !.ret = "Error: User context not available"]
        ELSE \/ \* invoke_model raises
                sq' = SearchRaised(call, <<>>, <<>>, {"embedding"})
             \/ \* the first query_vectors raises
                sq' = SearchRaised(call, <<f1>>, <<>>, {"embedding", "vector"})
             \/ \E r1 \in QueryVectors(vectors, f1, top_k) :
                  IF NeedsRetry(r1, category)
                  THEN \/ \* the second query_vectors raises
                          sq' = SearchRaised(call, <<f1, f2>>, r1, {"embedding", "vector"})
                       \/ \E r2 \in QueryVectors(vectors, f2, top_k) :
                             sq' = SearchReturned(call, <<f1, f2>>, r1, r2)
                  ELSE sq' = SearchReturned(call, <<f1>>, r1, r1)

\* arguments of a search: the planner's query, category and top_k, and the
\* context the caller passes
SearchQueries == {"sildar"}
SearchCategories == {NoneVal, "", "npcs", "lore"}
SearchTopK == {1, 5}

\* what the index can hold: records written by index_handler for two owners
\* and two collections, and records of a producer that sets category and
\* filename in the metadata
Snippet == chunk_text("Sildar is a knight.", CHUNK_SIZE, CHUNK_OVERLAP)[1]

IndexedRecords ==
    {VectorRecord(u, c, "npcs/sildar.md", Snippet) : u \in {UserA, UserB},
                                                     c \in {Campaign, "other"}}

CategorisedRecords ==
    {[VectorRecord(u, Campaign, "npcs/gundren.md", Snippet)
         EXCEPT !.category = "npcs", !.filename = "gundren.md"] : u \in {UserA, UserB}}

----------------------------------------------------------------------------
(* Calls of chunk_text *)

MaxTextLen == 4
MaxChunkSize == 5

Alphabet == {"a", ".", " "}

RECURSIVE Texts(_)
\* the texts over Alphabet of length at most n
Texts(n) ==
    IF n = 0 THEN {""}
    ELSE LET shorter == Texts(n - 1)
         IN  shorter \cup {t \o ch : t \in shorter, ch \in Alphabet}

\* a 2,000-character document with a sentence end at the start of the last
\* fifth of each window
DenseDoc == Repeat("a", 640) \o ". " \o Repeat("a", 540) \o ". " \o Repeat("a", 540)
              \o ". " \o Repeat("a", 274)

\* a 66-character text with a sentence end every three characters
CutDoc == Repeat("a. ", 22)

\* (text, chunk_size, overlap) of a call: every short text with every small
\* size, the documents with the sizes of the deployment, and the text of
\* short sentences with a size of 20, for which the sentence-boundary search
\* has a window of 4 characters
ChunkInputs ==
    {<<t, size, overlap>> : t \in Texts(MaxTextLen), size \in 1..MaxChunkSize,
                            overlap \in 0..(MaxChunkSize - 1)}
      \cup {<<d, CHUNK_SIZE, CHUNK_OVERLAP>> : d \in {LongDoc, ShortDoc, DenseDoc}}
      \cup {<<CutDoc, 20, overlap>> : overlap \in {0, 15, 18}}

NoChunking == [called |-> FALSE, text |-> "", chunk_size |-> 0, overlap |-> 0,
               chunks |-> <<>>]

\* the call chunk_text(text, chunk_size, overlap) and what it returned
ChunkText(text, chunk_size, overlap) ==
    /\ ~ck.called
    /\ ck' = [called |-> TRUE, text |-> text, chunk_size |-> chunk_size, overlap |-> overlap,
           chunks |-> chunk_text(text, chunk_size, overlap)]

----------------------------------------------------------------------------
(* Specification of the agent and sessions lambdas *)

vars == <<turnVars, sessVars, indexVars, searchVars, chunkVars, sockVars>>

\* the state after deployment, with t chat requests and i index requests
\* already counted and the index holding the records V
InitState(t, i, V) ==
    /\ pc = "idle"
    /\ turn = NoTurn
    /\ messages = <<>>
    /\ tools_executed = <<>>
    /\ response_text = ""
    /\ result = NoResult
    /\ history_cache = [s \in SessionIds |-> NotCached]
    /\ store = [s \in SessionIds |-> <<>>]
    /\ extCalls = {}
    /\ invoked = {}
    /\ planCalls = 0
    /\ genCalls = 0
    /\ toolRounds = 0
    /\ raisedIn = "none"
    /\ storeAtStart = [s \in SessionIds |-> <<>>]
    /\ cacheAtStart = [s \in SessionIds |-> NotCached]
    /\ creator = [s \in SessionIds |-> NoneVal]
    /\ pendingSave = [s \in SessionIds |-> <<>>]
    /\ savedBefore = <<>>
    /\ loadedFrom = "none"
    /\ turns = t
    /\ streamed = <<>>
    /\ connected = TRUE
    /\ delivered = <<>>
    /\ final_messages = <<>>
    /\ other_cache = [s \in SessionIds |-> NotCached]
    /\ sessResp = NoSessResp
    /\ vectors = V
    /\ blobs = [k \in S3Keys |-> NoneVal]
    /\ ix = [w \in Workers |-> IdleWorker]
    /\ ilog = <<>>
    /\ returned = 0
    /\ indexOps = i
    /\ sq = NoSearch
    /\ ck = NoChunking
    /\ ws = NoSocket

\* the same with an empty index
InitWith(t, i) == InitState(t, i, {})

Init == InitWith(0, 0)

AgentNext ==
    \/ \E req \in Requests : MainRequest(req) /\ sessResp' = NoSessResp
    \/ AgentNode /\ UNCHANGED sessVars
    \/ ToolNode /\ UNCHANGED sessVars
    \/ Respond /\ UNCHANGED sessVars
    \/ Save /\ UNCHANGED sessVars
    \/ Return /\ UNCHANGED sessVars
    \/ \E user_id \in UserIds, session_id \in SessionIdInputs : SessionRequest(user_id, session_id)

Next == AgentNext /\ UNCHANGED <<indexVars, searchVars, chunkVars, sockVars>>

Spec == Init /\ [][Next]_vars

----------------------------------------------------------------------------
(* Specification of the indexing lambda *)

IndexNext ==
    /\ UNCHANGED <<turnVars, sessVars, searchVars, chunkVars, sockVars>>
    /\ \E w \in Workers :
          \/ \E ev \in IndexEvents : IndexRequest(w, ev)
          \/ DeleteQuery(w)
          \/ DeleteVectors(w)
          \/ PutObject(w)
          \/ Embed(w)
          \/ PutVectors(w)

IndexSpec == Init /\ [][IndexNext]_vars

\* the indexing lambda with one request at a time: a request arrives when
\* no invocation is running
SerialIndexNext ==
    /\ IndexNext
    /\ indexOps' # indexOps => \A w \in Workers : ix[w].pc = "idle"

SerialIndexSpec == Init /\ [][SerialIndexNext]_vars

----------------------------------------------------------------------------
(* Specification of the agent lambda on two execution contexts.  Each has *)
(* its own module-level _history_cache; the chat-history table is shared. *)
(* The turns of the first context are followed step by step; a turn of    *)
(* the second is taken as a whole: between its load and its save it       *)
(* touches neither the table nor the cache of the first.                  *)

\* requests served by the second context: the default session of UserA
OtherRequests ==
    {req \in Requests : Validate(req) = "" /\ req.userId = UserA /\ req.sessionId = NoneVal}

\* main() in the second context: get_history_messages (line 499), the graph
\* and the response, save_messages (lines 551-556); aborted: a call between
\* the two raised and main() returned the error without saving.  The second
\* context writes while the session holds fewer than MaxTurns - 1 pairs.
OtherContextTurn(req) ==
    /\ Len(store[SessionOf(req)]) < 2 * (MaxTurns - 1)
    /\ \E readOk, writeOk, aborted \in BOOLEAN :
          LET sid == SessionOf(req)
              h == get_history_messages(sid, 2, other_cache, store, readOk)
              saved == IF aborted THEN [store |-> store, cache |-> h.cache]
                       ELSE save_messages(sid, req.prompt, "answer", h.cache, store, writeOk)
              wrote == ~aborted /\ writeOk
          IN  /\ other_cache' = saved.cache
              /\ store' = saved.store
              /\ pendingSave' = IF wrote
                                THEN [pendingSave EXCEPT ![sid] =
                                         <<HumanMessage(req.prompt), AIMessage("answer")>>]
                                ELSE pendingSave
              /\ creator' = IF wrote /\ creator[sid] = NoneVal
                            THEN [creator EXCEPT ![sid] = req.userId]
                            ELSE creator
    /\ UNCHANGED <<pc, turn, messages, tools_executed, response_text, result, history_cache,
                   extCalls, invoked, planCalls, genCalls, toolRounds, raisedIn,
                   storeAtStart, cacheAtStart, savedBefore, loadedFrom, turns, streamed,
                   connected, delivered, final_messages>>
    /\ UNCHANGED <<sessVars, indexVars, searchVars, chunkVars, sockVars>>

ContextsNext == Next \/ \E req \in OtherRequests : OtherContextTurn(req)

ContextsSpec == Init /\ [][ContextsNext]_vars

----------------------------------------------------------------------------
(* Specification of one index request for a file that has records in the  *)
(* index: none, one, and one fewer than, exactly and one more than each   *)
(* multiple of the page size up to MaxPages pages, next to the records of *)
(* another owner and of another collection                                *)

MaxPages == 2

DrainSizes ==
    {n \in {k * TOP_K + d : k \in 0..MaxPages, d \in {-1, 0, 1}} : n >= 0}

\* the records an earlier version of the file with n chunks left in the index
PriorRecords(n) ==
    {VectorRecord(UserA, Campaign, "npcs/sildar.md",
                  [text |-> "old", chunkIndex |-> i, totalChunks |-> n,
                   startPosition |-> i, endPosition |-> i + 1]) : i \in 0..(n - 1)}

Bystanders ==
    {VectorRecord(UserB, Campaign, "npcs/sildar.md", Snippet),
     VectorRecord(UserA, "other", "npcs/sildar.md", Snippet)}

DrainInit ==
    \E n \in DrainSizes : InitState(0, MaxIndexOps - 1, PriorRecords(n) \cup Bystanders)

DrainSpec == DrainInit /\ [][IndexNext]_vars

----------------------------------------------------------------------------
(* Specification of the indexing lambda serving, one at a time, requests  *)
(* of one user and campaign for two files whose paths differ in one       *)
(* character                                                              *)

PathEvents ==
    [user : {UserA}, campaign : {Campaign}, filePath : {"npcs/sildar.md", BarPath},
     content : {LongDoc, ShortDoc}, json_ok : {TRUE}]

PathNext ==
    /\ UNCHANGED <<turnVars, sessVars, searchVars, chunkVars, sockVars>>
    /\ \E w \in Workers :
          \/ /\ \A o \in Workers : ix[o].pc = "idle"
             /\ \E ev \in PathEvents : IndexRequest(w, ev)
          \/ DeleteQuery(w)
          \/ DeleteVectors(w)
          \/ PutObject(w)
          \/ Embed(w)
          \/ PutVectors(w)

PathSpec == Init /\ [][PathNext]_vars

----------------------------------------------------------------------------
(* Specification of the three lambdas together.  The agent and sessions    *)
(* lambdas work on the chat-history table and the cache, the indexing      *)
(* lambda on the vector index and the bucket; their steps commute, so the  *)
(* requests of the two sides are taken one after the other.  The request   *)
(* counters start one below their bounds, so each side serves one request, *)
(* which keeps the product of the two sides small.                         *)

AllNext ==
    \/ (\A w \in Workers : ix[w].pc = "idle") /\ Next
    \/ pc = "idle" /\ IndexNext

AllInit == InitWith(MaxTurns - 1, MaxIndexOps - 1)

AllSpec == AllInit /\ [][AllNext]_vars


----------------------------------------------------------------------------
(* Specification of search_campaign: calls against an index that holds any *)
(* selection of the records above.                                         *)

SearchInit ==
    \E V \in SUBSET (IndexedRecords \cup CategorisedRecords) :
        InitState(MaxTurns, MaxIndexOps, V)

SearchNext ==
    /\ UNCHANGED <<turnVars, sessVars, indexVars, chunkVars, sockVars>>
    /\ \E query \in SearchQueries, category \in SearchCategories, top_k \in SearchTopK,
          user_id \in {UserA, NoneVal}, campaign \in {Campaign, NoneVal} :
            search_campaign(query, category, top_k, user_id, campaign)

SearchSpec == SearchInit /\ [][SearchNext]_vars

----------------------------------------------------------------------------
(* Specification of chunk_text: one call with any of the inputs *)

ChunkNext ==
    /\ UNCHANGED <<turnVars, sessVars, indexVars, searchVars, sockVars>>
    /\ \E in \in ChunkInputs : ChunkText(in[1], in[2], in[3])

ChunkSpec == Init /\ [][ChunkNext]_vars

----------------------------------------------------------------------------
(* Specification of a turn whose client goes away: the connection of the   *)
(* request can close at any point between the arrival of the request and   *)
(* the return of main().  The run follows the last turn of the budget.     *)

\* the client disconnects: from now on post_to_connection raises
\* GoneException (main.py, line 42)
Disconnect ==
    /\ pc \in {"agent", "tools", "respond", "save"}
    /\ connected
    /\ connected' = FALSE
    /\ UNCHANGED <<pc, turn, messages, tools_executed, response_text, result, history_cache,
                   store, extCalls, invoked, planCalls, genCalls, toolRounds, raisedIn,
                   storeAtStart, cacheAtStart, creator, pendingSave, savedBefore, loadedFrom,
                   turns, streamed, delivered, final_messages, other_cache>>
    /\ UNCHANGED <<sessVars, indexVars, searchVars, chunkVars, sockVars>>

DropInit == InitWith(MaxTurns - 1, 0)

DropNext == Next \/ Disconnect

DropSpec == DropInit /\ [][DropNext]_vars

----------------------------------------------------------------------------
(* Specification of the socket handler: lambda_handler of main.py around  *)
(* one call of main(), with the connection closing at any point           *)

\* events of the $default route: the body parses or not, and the fields of
\* the body and of the authorizer context.  API Gateway puts the
\* connectionId into every event of a WebSocket route, so the branch of
\* lines 62-64 (no message, status 400) is not taken.
SocketEvents ==
    [body_ok : BOOLEAN, action : {"chat", "ping", NoneVal}, userId : {UserA, NoneVal},
     campaign : Campaigns, message : Prompts, sessionId : SessionIdInputs]

\* lines 87-92
input_data(ev) ==
    [userId |-> ev.userId, campaign |-> ev.campaign, prompt |-> ev.message,
     sessionId |-> ev.sessionId]

\* lambda_handler up to the call of agent_main (lines 59-111)
LambdaHandler(ev) ==
    /\ pc = "idle"
    /\ ws.phase # "agent"
    /\ turns < MaxTurns
    /\ IF ~ev.body_ok
       THEN \* json.loads raises: the except clause of lines 127-130
            /\ ws' = [NoSocket EXCEPT !.phase = "returned", !.statusCode = 500,
                                      !.sent = <<WsMessage("error", "invalid body")>>]
            /\ UNCHANGED turnVars
       ELSE IF ev.action # "chat"
       THEN /\ ws' = [NoSocket EXCEPT !.phase = "returned", !.statusCode = 400,
                                      !.sent = <<WsMessage("error", "Unknown action")>>]
            /\ UNCHANGED turnVars
       ELSE IF ~(Truthy(ev.userId) /\ Truthy(ev.campaign) /\ Truthy(ev.message)
                 /\ Truthy(ev.sessionId))
       THEN /\ ws' = [NoSocket EXCEPT !.phase = "returned", !.statusCode = 400,
                                      !.sent = <<WsMessage("error",
                                                           "Missing required fields")>>]
            /\ UNCHANGED turnVars
       ELSE /\ MainRequest(input_data(ev))
            /\ ws' = [NoSocket EXCEPT !.phase = "agent", !.invoked = TRUE]
    /\ UNCHANGED <<sessVars, indexVars, searchVars, chunkVars>>

\* a step of main() under lambda_handler: what the step hands to the stream
\* callback is passed to send_websocket_message by stream_callback
Streaming(step) ==
    /\ ws.phase = "agent"
    /\ step
    /\ ws' = [ws EXCEPT !.sent = @ \o ChunkSends(SubSeq(streamed', Len(streamed) + 1,
                                                        Len(streamed')))]
    /\ UNCHANGED <<sessVars, indexVars, searchVars, chunkVars>>

\* lambda_handler, lines 111-125: agent_main has returned
HandlerReturn ==
    /\ ws.phase = "agent"
    /\ Return
    /\ ws' = [ws EXCEPT !.phase = "returned",
                        !.sent = @ \o terminal_messages(result),
                        !.statusCode = IF result.kind = "error" THEN 500 ELSE 200,
                        !.agent_result = result.kind]
    /\ UNCHANGED <<sessVars, indexVars, searchVars, chunkVars>>

SocketNext ==
    \/ \E ev \in SocketEvents : LambdaHandler(ev)
    \/ Streaming(AgentNode)
    \/ Streaming(ToolNode)
    \/ Streaming(Respond)
    \/ Streaming(Save)
    \/ HandlerReturn
    \/ ws.phase = "agent" /\ Disconnect

SocketInit == InitWith(MaxTurns - 1, 0)

SocketSpec == SocketInit /\ [][SocketNext]_vars

----------------------------------------------------------------------------
(* The graph runs its nodes one after the other without waiting for        *)
(* anything but the calls they make: a node that is due is run.  The loop  *)
(* of a turn starts from the planning messages only, so the run follows    *)
(* the last turn of the budget.                                            *)

\* a step of the graph: one of its two nodes
GraphStep ==
    (AgentNode \/ ToolNode)
        /\ UNCHANGED <<sessVars, indexVars, searchVars, chunkVars, sockVars>>

FairInit == InitWith(MaxTurns - 1, 0)

FairSpec == FairInit /\ [][Next]_vars /\ WF_vars(GraphStep)

----------------------------------------------------------------------------
(* Properties of a turn *)

\* the turn has returned a response
Responded == pc = "done" /\ result.kind = "response"

\* every planning call of the turn returned a tool call
PlannerAlwaysCalls ==
    /\ planCalls > 0
    /\ \A i \in DOMAIN messages : messages[i].content # "[PLANNING_COMPLETE]"

\* every entry of the tools-used record contains the name of a passthrough tool
OnlyPassthroughEntries ==
    /\ tools_executed # <<>>
    /\ \A i \in DOMAIN tools_executed : Contains(tools_executed[i], "translate_runes")

\* C1, as stated: at most MAX_ITERATIONS tool rounds in a turn, and with a
\* planner that returns a tool call on every invocation exactly
\* MAX_ITERATIONS rounds followed by one generation call.
C1_AsStated ==
    /\ toolRounds <= MAX_ITERATIONS
    /\ (Responded /\ PlannerAlwaysCalls) => (toolRounds = MAX_ITERATIONS /\ genCalls = 1)

\* C1, amended: at most MAX_ITERATIONS tool rounds in a turn; with a planner
\* that returns a tool call on every invocation the turn runs exactly
\* MAX_ITERATIONS rounds and MAX_ITERATIONS planning calls, followed by one
\* generation call, or by none when every tools-used entry contains the name
\* of a passthrough tool.
C1_IterationCap ==
    /\ toolRounds <= MAX_ITERATIONS
    /\ (Responded /\ PlannerAlwaysCalls) =>
          /\ toolRounds = MAX_ITERATIONS
          /\ planCalls = MAX_ITERATIONS
          /\ genCalls = IF OnlyPassthroughEntries THEN 0 ELSE 1

C1_Witness ==
    /\ Responded
    /\ PlannerAlwaysCalls
    /\ toolRounds = MAX_ITERATIONS
    /\ genCalls = 1
    /\ Last(messages).content = "[MAX_ITERATIONS_REACHED]"

\* C2: whatever the planning model returns, a turn inside the plan/execute
\* loop leaves the loop (the graph reaches END and main() goes on to the
\* response) unless one of its calls raised.
C2_LoopTerminates ==
    (pc \in {"agent", "tools"}) ~> (pc = "respond" \/ raisedIn # "none")

C2_Witness ==
    /\ pc = "respond"
    /\ toolRounds = MAX_ITERATIONS
    /\ planCalls = MAX_ITERATIONS
    /\ raisedIn = "none"

\* C3, as stated: a turn that returns a response has invoked the generation
\* model exactly once.
C3_AsStated == Responded => genCalls = 1

\* C3, amended: a turn that returns a response has invoked the generation
\* model at most once; it has not invoked it at all exactly when tools were
\* used and every tools-used entry contains the name of a passthrough tool.
C3_GenerationOnce ==
    Responded =>
        /\ genCalls <= 1
        /\ (genCalls = 0) <=> OnlyPassthroughEntries

C3_Witness ==
    /\ Responded
    /\ genCalls = 0
    /\ toolRounds > 0
    /\ response_text = "runes"

\* C6: after a successful save_messages the cache has no entry for the
\* session until the next load_history of it, and that load goes to the
\* table and, when the read returns, hands back the saved pair as the last
\* two messages.
C6_CacheCoherence ==
    /\ \A sid \in SessionIds : pendingSave[sid] # <<>> => ~history_cache[sid].present
    /\ savedBefore # <<>> =>
          /\ loadedFrom \in {"store", "failed"}
          /\ loadedFrom = "store" =>
                /\ turn.history_messages = savedBefore
                /\ LastN(storeAtStart[turn.session_id], 2) = savedBefore

C6_Witness ==
    /\ pc = "agent"
    /\ savedBefore # <<>>
    /\ loadedFrom = "store"
    /\ cacheAtStart[turn.session_id] = NotCached
    /\ turn.history_messages = savedBefore

\* C7: a turn in which a planning call, a tool call or the generation call
\* raised returns an error and leaves the table as it was when the turn began.
C7_AbortWritesNothing ==
    (pc = "done" /\ raisedIn \in {"planning", "tool", "generation"}) =>
        /\ result.kind = "error"
        /\ store = storeAtStart

C7_Witness ==
    /\ pc = "done"
    /\ raisedIn = "generation"
    /\ toolRounds > 0
    /\ result.kind = "error"
    /\ \E sid \in SessionIds : store[sid] # <<>>

\* C9, as stated: a chat request or a session request of user A that names a
\* session first written by another user B is turned away: no turn runs on
\* it, its history is not returned, and it is not listed.
C9_AsStated ==
    /\ pc \in {"agent", "tools", "respond", "save"} =>
          creator[turn.session_id] \in {NoneVal, turn.user_id}
    /\ sessResp.kind = "history" => creator[sessResp.sessionId] = sessResp.user
    /\ sessResp.kind = "list" =>
          \A x \in sessResp.sessions : creator[x.sessionId] = sessResp.user

\* C10: every tool invoked with injected parameters got the user, campaign
\* and session of the turn for them, whatever the model supplied.
C10_InjectedValuesWin ==
    \A inv \in invoked :
        /\ inv.name \in CONTEXT_TOOLS =>
              inv.args.user_id = turn.user_id /\ inv.args.campaign = turn.campaign
        /\ inv.name \in SESSION_TOOLS => inv.args.session_id = turn.session_id

C10_Witness ==
    /\ \E inv \in invoked : inv.name = "search_campaign" /\ inv.args.user_id = turn.user_id
    /\ \E inv \in invoked : inv.name = "get_file_content" /\ inv.args.campaign = turn.campaign
    /\ \E inv \in invoked :
          inv.name = "get_conversation_history" /\ inv.args.session_id = turn.session_id
    /\ \E i \in DOMAIN messages : \E j \in DOMAIN messages[i].tool_calls :
          /\ "user_id" \in DOMAIN messages[i].tool_calls[j].args
          /\ messages[i].tool_calls[j].args.user_id # turn.user_id

----------------------------------------------------------------------------
(* Properties of the indexing pipeline *)

\* keys of the chunks of the content of log entry e
ChunkKeys(e) ==
    {vector_key(e.user_id, e.campaign, e.file_path, ChunksOf[e.content][i].chunkIndex) :
        i \in DOMAIN ChunksOf[e.content]}

\* the request of log entry e ran with no other request on its file returning
\* during it or in progress at its end
RanAlone(e) == e.alone /\ e.started_after = e.seq

\* C4, as stated: after an index request that returned 200 with no other
\* request on the file in progress, the keys stored for the file are the
\* keys of the chunks of the content just indexed.
C4_AsStated ==
    \A i \in DOMAIN ilog :
        (ilog[i].statusCode = 200 /\ RanAlone(ilog[i])) => ilog[i].keysAfter = ChunkKeys(ilog[i])

\* C5, as stated: two index requests for the same file and content, one after
\* the other, both returning 200: the keys stored after the second are the
\* keys stored after the first, one per chunk.
C5_AsStated ==
    \A i \in DOMAIN ilog : \A j \in DOMAIN ilog :
        ( /\ j = i + 1
          /\ ilog[i].statusCode = 200 /\ ilog[j].statusCode = 200
          /\ RanAlone(ilog[i]) /\ RanAlone(ilog[j])
          /\ ilog[j].seq = ilog[i].seq + 1
          /\ ilog[i].user_id = ilog[j].user_id /\ ilog[i].campaign = ilog[j].campaign
          /\ ilog[i].file_path = ilog[j].file_path /\ ilog[i].content = ilog[j].content )
        => /\ ilog[j].keysAfter = ilog[i].keysAfter
           /\ ilog[j].keysAfter = ChunkKeys(ilog[j])

----------------------------------------------------------------------------
(* Properties of request validation *)

\* the fields main() checks, as the turn has them
LacksTurnField(t) ==
    \/ ~Truthy(t.user_id)
    \/ ~Truthy(t.campaign)
    \/ ~Truthy(t.user_message)
    \/ ~startswith(t.session_id, t.user_id \o "-")

\* a chat request that lacks a field or names a session outside the user's
\* prefix ends at once with an error, no external call, table and cache,
\* index and bucket untouched
TurnRejection ==
    (pc = "idle" /\ pc' # "idle" /\ LacksTurnField(turn')) =>
        /\ pc' = "done"
        /\ result'.kind = "error"
        /\ extCalls' = {}
        /\ UNCHANGED <<store, history_cache, vectors, blobs>>

\* an index request is either taken up with user, campaign, path and content
\* all present, or answered 400 with no external call, index and bucket,
\* table and cache untouched
IndexRejection ==
    (indexOps' # indexOps) =>
        \/ \E w \in Workers :
              /\ ix[w].pc = "idle" /\ ix'[w].pc = "query"
              /\ Truthy(ix'[w].user_id) /\ Truthy(ix'[w].campaign)
              /\ Truthy(ix'[w].file_path) /\ Truthy(ix'[w].content)
        \/ /\ ix' = ix
           /\ returned' = returned + 1
           /\ Last(ilog').statusCode = 400
           /\ Last(ilog').ext = {}
           /\ UNCHANGED <<store, history_cache, vectors, blobs>>

\* C8: a chat request lacking userId, campaign or prompt or naming a session
\* that does not start with "{userId}-", and an index request lacking user,
\* campaign, path or content, is rejected with an error before any external
\* call, with every store and the cache unchanged.
C8_RejectedBeforeAnyCall == [][TurnRejection /\ IndexRejection]_vars

C8_Witness ==
    /\ pc = "done"
    /\ result.kind = "error"
    /\ raisedIn = "none"
    /\ extCalls = {}
    /\ LacksTurnField(turn)
    /\ ilog # <<>>
    /\ Last(ilog).statusCode = 400
    /\ Last(ilog).ext = {}
    /\ vectors = {}

----------------------------------------------------------------------------
(* Properties of tool dispatch *)

\* position in messages of the latest planning output with tool calls (0: none)
LastPlan ==
    LET P == {i \in DOMAIN messages : messages[i].tool_calls # <<>>}
    IN  IF P = {} THEN 0 ELSE SetMax(P)

RECURSIVE CallsUpTo(_)
\* number of tool calls in messages[1..n]
CallsUpTo(n) == IF n = 0 THEN 0 ELSE CallsUpTo(n - 1) + Len(messages[n].tool_calls)

\* the tool call as _tool_node hands it to the tool
Dispatched(tool_call) ==
    [name |-> tool_call.name,
     args |-> [k \in DOMAIN tool_call.args \cup
                     (IF tool_call.name \in CONTEXT_TOOLS THEN {"user_id", "campaign"} ELSE {})
                     \cup (IF tool_call.name \in SESSION_TOOLS THEN {"session_id"} ELSE {}) |->
                 IF k = "user_id" /\ tool_call.name \in CONTEXT_TOOLS THEN turn.user_id
                 ELSE IF k = "campaign" /\ tool_call.name \in CONTEXT_TOOLS THEN turn.campaign
                 ELSE IF k = "session_id" /\ tool_call.name \in SESSION_TOOLS
                 THEN turn.session_id
                 ELSE tool_call.args[k]]]

\* a tool round has just ended and the next planning round is due
RoundDone == pc = "agent" /\ LastPlan > 0

\* C11: when a tool round has ended, the messages after the latest planning
\* output are one tool message per tool call of that output, in the order
\* of the calls and each with the id of its call; every call of the turn has
\* been dispatched once (one tools-used entry per call, every call to a
\* registered tool handed to the tool).
C11_OneMessagePerCall ==
    RoundDone =>
        LET tool_calls == messages[LastPlan].tool_calls
        IN  /\ Len(messages) = LastPlan + Len(tool_calls)
            /\ \A j \in DOMAIN tool_calls :
                  /\ messages[LastPlan + j].type = "tool"
                  /\ messages[LastPlan + j].tool_call_id = tool_calls[j].id
                  /\ tool_calls[j].name \in TOOL_MAP => Dispatched(tool_calls[j]) \in invoked
            /\ Len(tools_executed) = CallsUpTo(Len(messages))

C11_Witness ==
    /\ RoundDone
    /\ toolRounds = 2
    /\ Len(messages[LastPlan].tool_calls) = 4
    /\ messages[LastPlan + 2].tool_call_id = "call_2"
    /\ Len(tools_executed) > 4

\* the call of the latest planning output that raised, when a tool raised:
\* the calls before it have their tools-used entries
RaisingCall ==
    Last(messages).tool_calls[Len(tools_executed) - CallsUpTo(Len(messages) - 1) + 1]

\* C12: a tool call whose name is not in the registry gets the tool message
\* "Unknown tool: <name>" with the id of the call; it never is the call that
\* raised out of a round; the round it is in dispatches its other calls and
\* hands control back to planning with the turn not aborted.
C12_UnknownToolIsResult ==
    /\ \A i \in DOMAIN messages : \A j \in DOMAIN messages[i].tool_calls :
          (i + j \in DOMAIN messages /\ messages[i].tool_calls[j].name \notin TOOL_MAP) =>
              messages[i + j] = Msg("tool", "Unknown tool: " \o messages[i].tool_calls[j].name,
                                    <<>>, messages[i].tool_calls[j].id)
    /\ raisedIn = "tool" => RaisingCall.name \in TOOL_MAP
    /\ (RoundDone /\ \E j \in DOMAIN messages[LastPlan].tool_calls :
                        messages[LastPlan].tool_calls[j].name \notin TOOL_MAP) =>
          /\ raisedIn = "none"
          /\ result.kind = "none"
          /\ \A j \in DOMAIN messages[LastPlan].tool_calls :
                messages[LastPlan].tool_calls[j].name \in TOOL_MAP =>
                    Dispatched(messages[LastPlan].tool_calls[j]) \in invoked

C12_Witness ==
    /\ pc = "respond"
    /\ planCalls = 2
    /\ raisedIn = "none"
    /\ \E i \in DOMAIN messages :
          /\ messages[i].type = "tool"
          /\ messages[i].content = "Unknown tool: list_campaign_files"
          /\ messages[i].tool_call_id = "call_4"
    /\ \E inv \in invoked : inv.name = "get_conversation_history"

----------------------------------------------------------------------------
(* Properties of search_campaign *)

\* the call had user and campaign
HasContext == Truthy(sq.user_id) /\ Truthy(sq.campaign)

\* the filter on the owner and the collection of the call alone
OwnFilter == [userId |-> sq.user_id, campaign |-> sq.campaign, category |-> NoneVal]

IsSentinel(text) == startswith(text, "No relevant information found")

\* C13: a search that returns has issued two queries exactly when it had a
\* category and the first query, filtered on it, came back empty; the second
\* query is filtered on owner and collection only and its answer is what is
\* returned; otherwise one query is issued.  The sentinel is returned, by a
\* call that returns, exactly when no record of the owner and collection is
\* in the index.
C13_FallbackOnce ==
    (sq.pc = "returned" /\ HasContext) =>
        LET withCategory == Truthy(sq.category)
            last == sq.queries[Len(sq.queries)]
        IN  /\ Len(sq.queries) = IF withCategory /\ Len(sq.first) = 0 THEN 2 ELSE 1
            /\ sq.queries[1] = [OwnFilter EXCEPT !.category =
                                   IF withCategory THEN sq.category ELSE NoneVal]
            /\ Len(sq.queries) = 2 => sq.queries[2] = OwnFilter
            /\ \A i \in DOMAIN sq.results : Matches(sq.results[i], last)
            /\ Len(sq.results) = Min(sq.top_k, Cardinality(Matching(vectors, last)))
            /\ IsSentinel(sq.ret) <=> Matching(vectors, OwnFilter) = {}
            /\ ~IsSentinel(sq.ret) => startswith(sq.ret, "Result 1 (from ")

C13_Witness ==
    /\ sq.pc = "returned"
    /\ sq.category = "lore"
    /\ Len(sq.queries) = 2
    /\ Len(sq.first) = 0
    /\ Len(sq.results) = 2
    /\ ~IsSentinel(sq.ret)

\* C14: every query of a search is filtered on the user and the campaign of
\* the call, every record in an answer is of that user and campaign, and a
\* call without user or campaign returns the error string with no query and
\* no external call.
C14_OwnerScopedQueries ==
    /\ \A i \in DOMAIN sq.queries :
          sq.queries[i].userId = sq.user_id /\ sq.queries[i].campaign = sq.campaign
    /\ \A i \in DOMAIN sq.first :
          sq.first[i].userId = sq.user_id /\ sq.first[i].campaign = sq.campaign
    /\ \A i \in DOMAIN sq.results :
          sq.results[i].userId = sq.user_id /\ sq.results[i].campaign = sq.campaign
    /\ (sq.pc # "none" /\ ~HasContext) =>
          /\ sq.pc = "returned"
          /\ Len(sq.queries) = 0
          /\ sq.ext = {}
          /\ sq.ret = "Error: User context not available"

C14_Witness ==
    /\ sq.pc = "returned"
    /\ Len(sq.queries) = 2
    /\ Len(sq.results) > 0
    /\ \E v \in vectors : v.userId # sq.user_id /\ v.campaign = sq.campaign
    /\ \E v \in vectors : v.userId = sq.user_id /\ v.campaign # sq.campaign

----------------------------------------------------------------------------
(* Properties of streaming *)

\* the strings the planning model has produced in this turn: the names and
\* the argument values of its tool calls
PlanningProduced ==
    UNION {UNION {{messages[i].tool_calls[j].name} \cup
                  {messages[i].tool_calls[j].args[k] :
                       k \in DOMAIN messages[i].tool_calls[j].args} :
                     j \in DOMAIN messages[i].tool_calls} : i \in DOMAIN messages}

\* C15, as stated: nothing reaches the stream callback while the loop runs,
\* every delivery comes from the generation call, and no delivery holds a
\* string the planning model produced.
C15_AsStated ==
    /\ pc \in {"agent", "tools"} => Len(streamed) = 0
    /\ \A i \in DOMAIN streamed :
          /\ streamed[i].caller = "creative_llm"
          /\ \A p \in PlanningProduced : ~Contains(streamed[i].text, p)

\* C15, amended: nothing reaches the stream callback while the loop runs or
\* in a turn a planning call or a tool call aborted; no delivery comes from
\* a planning call.  After the loop the callback gets first the tokens of
\* the one generation call, which hold nothing the planning model produced,
\* or, with no generation call, the last tool result from main(); then, from
\* main(), the tools summary when tools were used.
C15_StreamAfterLoop ==
    /\ (pc \in {"agent", "tools"} \/ raisedIn \in {"planning", "tool"}) => Len(streamed) = 0
    /\ Len(streamed) <= 2
    /\ \A i \in DOMAIN streamed :
          /\ streamed[i].caller \in {"creative_llm", "main"}
          /\ streamed[i].caller = "creative_llm" =>
                /\ i = 1
                /\ genCalls = 1
                /\ \A p \in PlanningProduced : ~Contains(streamed[i].text, p)
          /\ streamed[i].caller = "main" =>
                \/ /\ i = 1
                   /\ genCalls = 0
                   /\ streamed[i].text = Last(SelectSeq(messages, IsToolMessage)).content
                \/ /\ i = 2
                   /\ tools_executed # <<>>
                   /\ startswith(streamed[i].text, "\n\n---\n- _")

C15_Witness ==
    /\ Responded
    /\ toolRounds > 0
    /\ Len(streamed) = 2
    /\ streamed[1] = [caller |-> "creative_llm", text |-> "answer"]
    /\ streamed[2].caller = "main"
    /\ Contains(streamed[2].text, "sildar")

----------------------------------------------------------------------------
(* Properties of failures in the indexing pipeline *)

\* C16, as stated: a request in which nothing but embedding calls failed
\* returns 200, having put every chunk that got its embedding.
C16_AsStated ==
    \A i \in DOMAIN ilog :
        (ilog[i].failed # {} /\ ilog[i].failed \subseteq {"invoke_model", "no_embedding"}) =>
            /\ ilog[i].statusCode = 200
            /\ ilog[i].chunksProcessed = Cardinality(ilog[i].embedded)
            /\ RanAlone(ilog[i]) => ilog[i].embedded \subseteq ilog[i].keysAfter

\* C17: a request in which nothing but calls of the delete phase failed
\* returns 200 after put_object, the embedding of every chunk and put_vectors
\* ran; run alone on its file, it leaves the object with the new content and
\* a record for every chunk of it.
C17_DeleteFailureTolerated ==
    \A i \in DOMAIN ilog :
        (ilog[i].failed # {} /\ ilog[i].failed \subseteq {"query_vectors", "delete_vectors"}) =>
            /\ ilog[i].statusCode = 200
            /\ {"blob", "embedding", "vector"} \subseteq ilog[i].ext
            /\ ilog[i].chunksProcessed = Len(ChunksOf[ilog[i].content])
            /\ RanAlone(ilog[i]) =>
                  /\ ChunkKeys(ilog[i]) \subseteq ilog[i].keysAfter
                  /\ ilog[i].blobAfter = ilog[i].content

C17_Witness ==
    \E i \in DOMAIN ilog :
        /\ ilog[i].failed = {"delete_vectors"}
        /\ ilog[i].statusCode = 200
        /\ RanAlone(ilog[i])
        /\ ilog[i].content = ShortDoc
        /\ ilog[i].blobAfter = ShortDoc
        /\ ilog[i].chunksProcessed = 1
        /\ Cardinality(ilog[i].keysAfter) = 3

\* C18, as stated: a request for the 2,000-character document and then one
\* for the 500-character document on the same path, each returning 200 and
\* run alone: the first stores 3 records, the second 1, and afterwards the
\* file has the one key of the new version only.
C18_AsStated ==
    \A i \in DOMAIN ilog : \A j \in DOMAIN ilog :
        ( /\ j = i + 1
          /\ ilog[i].statusCode = 200 /\ ilog[j].statusCode = 200
          /\ RanAlone(ilog[i]) /\ RanAlone(ilog[j])
          /\ ilog[j].seq = ilog[i].seq + 1
          /\ ilog[i].user_id = ilog[j].user_id /\ ilog[i].campaign = ilog[j].campaign
          /\ ilog[i].file_path = ilog[j].file_path
          /\ ilog[i].content = LongDoc /\ ilog[j].content = ShortDoc )
        => /\ ilog[i].chunksProcessed = 3
           /\ Cardinality(ilog[i].keysAfter) = 3
           /\ ilog[j].chunksProcessed = 1
           /\ ilog[j].keysAfter =
                 {vector_key(ilog[j].user_id, ilog[j].campaign, ilog[j].file_path, 0)}

----------------------------------------------------------------------------
(* Properties of a turn without tools *)

\* the planning model returned no tool call at its first call
NoToolsFirstRound ==
    /\ planCalls = 1
    /\ toolRounds = 0
    /\ Last(messages).content = "[PLANNING_COMPLETE]"

\* the table is the table of the start of the turn with the user message and
\* the answer appended to the session of the turn
OnePairAppended ==
    store = [storeAtStart EXCEPT ![turn.session_id] =
                @ \o <<Msg("human", turn.user_message, <<>>, ""),
                       Msg("ai", response_text, <<>>, "")>>]

----------------------------------------------------------------------------
(* Properties of chunk_text *)

\* the text has a character that is not whitespace
NonBlank(text) == \E j \in 1..Len(text) : SubSeq(text, j, j) \notin Whitespace

\* the one chunk that spans text
WholeText(text) ==
    <<[text |-> text, chunkIndex |-> 0, totalChunks |-> 1, startPosition |-> 0,
       endPosition |-> Len(text)]>>

\* C20, as stated: for a text no longer than the chunk size, chunk_text
\* returns the one chunk that is the text and spans it.
C20_AsStated ==
    (ck.called /\ Len(ck.text) <= ck.chunk_size) => ck.chunks = WholeText(ck.text)

\* C20, amended: for a text no longer than the chunk size that has a
\* character other than whitespace, chunk_text returns the one chunk that is
\* the text and spans it; for an empty or whitespace-only text it returns no
\* chunk.
C20_SingleChunk ==
    (ck.called /\ Len(ck.text) <= ck.chunk_size) =>
        IF NonBlank(ck.text) THEN ck.chunks = WholeText(ck.text) ELSE Len(ck.chunks) = 0

C20_Witness ==
    /\ ck.called
    /\ ck.text = ".a a"
    /\ ck.chunk_size = 4
    /\ ck.chunks = WholeText(".a a")

----------------------------------------------------------------------------
(* Properties of the chunk_text loop *)

CeilDiv(a, b) == (a + b - 1) \div b

\* a call with a nonempty text, a size of at least 1 and an overlap below it
InContract == ck.called /\ ck.text # "" /\ ck.chunk_size >= 1 /\ ck.overlap < ck.chunk_size

\* ceil(len(text) / (size - overlap)) + 1
IterationBound == CeilDiv(Len(ck.text), ck.chunk_size - ck.overlap) + 1

\* the text has no match of the sentence-boundary pattern
NoBoundary(text) ==
    \A j \in 0..(Len(text) - 2) :
        ~(CharAt(text, j) \in SentenceEnd /\ CharAt(text, j + 1) \in Whitespace)

\* C21, as stated: for a nonempty text, a size of at least 1 and an overlap
\* below the size, chunk_text produces at most
\* ceil(len(text) / (size - overlap)) + 1 chunks.
C21_AsStated == InContract => Len(ck.chunks) <= IterationBound

\* C21, amended: for such a call chunk_text produces at most len(text)
\* chunks, one per iteration of its loop, and at most
\* ceil(len(text) / (size - overlap)) + 1 when the text has no sentence end
\* followed by whitespace.
C21_IterationBound ==
    InContract =>
        /\ Len(ck.chunks) <= Len(ck.text)
        /\ NoBoundary(ck.text) => Len(ck.chunks) <= IterationBound

C21_Witness ==
    /\ ck.called
    /\ ck.text = CutDoc /\ ck.chunk_size = 20 /\ ck.overlap = 15
    /\ IterationBound = 15
    /\ Len(ck.chunks) = 17

\* C22: of two consecutive chunks the second starts overlap characters
\* before the end of the first, unless that is not after the start of the
\* first: then it starts at the end of the first.
C22_OverlapBetweenChunks ==
    ck.called =>
        \A i \in 1..(Len(ck.chunks) - 1) :
            LET a == ck.chunks[i]
                b == ck.chunks[i + 1]
            IN  IF a.endPosition - ck.overlap > a.startPosition
                THEN a.endPosition - b.startPosition = ck.overlap
                ELSE b.startPosition = a.endPosition

C22_Witness ==
    /\ ck.called
    /\ ck.text = "a. a" /\ ck.chunk_size = 3 /\ ck.overlap = 1
    /\ Len(ck.chunks) = 2
    /\ ck.chunks[1].endPosition = 3
    /\ ck.chunks[2].startPosition = 2

RECURSIVE Rebuild(_, _)
\* chunks[1..i] put together, each without the characters it shares with the
\* chunk before it
Rebuild(chunks, i) ==
    IF i = 0 THEN ""
    ELSE LET shared == IF i = 1 THEN 0
                       ELSE chunks[i - 1].endPosition - chunks[i].startPosition
         IN  Rebuild(chunks, i - 1) \o Slice(chunks[i].text, shared, Len(chunks[i].text))

\* the chunks are slices of text, each starting no later than the one before
\* it ends, and put together they are text
Covers(chunks, text) ==
    /\ \A i \in DOMAIN chunks :
          chunks[i].text = Slice(text, chunks[i].startPosition, chunks[i].endPosition)
    /\ \A i \in 1..(Len(chunks) - 1) : chunks[i + 1].startPosition <= chunks[i].endPosition
    /\ chunks # <<>> => /\ chunks[1].startPosition = 0
                        /\ chunks[Len(chunks)].endPosition = Len(text)
    /\ Rebuild(chunks, Len(chunks)) = text

\* C23, as stated: the chunks of any text cover it: the first starts at 0,
\* the last ends at len(text), each is the slice of its positions, each starts
\* no later than the one before it ends, and together they are the text.
C23_AsStated == ck.called => Covers(ck.chunks, ck.text)

\* C23, amended: the chunks of a text that has a character other than
\* whitespace cover it in that way, and there is at least one; an empty or
\* whitespace-only text has no chunk.
C23_Coverage ==
    ck.called =>
        IF NonBlank(ck.text)
        THEN ck.chunks # <<>> /\ Covers(ck.chunks, ck.text)
        ELSE ck.chunks = <<>>

C23_Witness ==
    /\ ck.called
    /\ ck.text = DenseDoc
    /\ Len(ck.chunks) = 4
    /\ ck.chunks[2].startPosition = 542
    /\ ck.chunks[4].endPosition = 2000
    /\ Rebuild(ck.chunks, 4) = DenseDoc

\* C29: for a size of at least 1 and an overlap below it, every chunk has
\* at least one character and starts after the start of the chunk before it.
C29_ForwardProgress ==
    (ck.called /\ ck.chunk_size >= 1 /\ ck.overlap < ck.chunk_size) =>
        /\ \A i \in DOMAIN ck.chunks :
              /\ ck.chunks[i].endPosition > ck.chunks[i].startPosition
              /\ Len(ck.chunks[i].text) > 0
        /\ \A i \in 1..(Len(ck.chunks) - 1) :
              ck.chunks[i + 1].startPosition > ck.chunks[i].startPosition

C29_Witness ==
    /\ ck.called
    /\ ck.text = CutDoc /\ ck.chunk_size = 20 /\ ck.overlap = 18
    /\ ck.chunks[1].endPosition = 18
    /\ ck.chunks[2].startPosition = 18
    /\ Len(ck.chunks) = 4

----------------------------------------------------------------------------
(* Properties of concurrent index requests *)

\* the records index_handler builds for a version of a file
RecordsOf(user_id, campaign, file_path, content) ==
    {VectorRecord(user_id, campaign, file_path, ChunksOf[content][k]) :
        k \in DOMAIN ChunksOf[content]}

\* entries i and i + 1 of the log are two requests for one file that ran at
\* the same time, in which no call failed, and nothing has run since
ConcurrentPair(i) ==
    /\ i + 1 = Len(ilog)
    /\ \A w \in Workers : ix[w].pc = "idle"
    /\ ilog[i + 1].seq = returned - 1
    /\ ilog[i].seq = returned - 2
    /\ ilog[i].statusCode = 200 /\ ilog[i + 1].statusCode = 200
    /\ ilog[i].failed = {} /\ ilog[i + 1].failed = {}
    /\ ilog[i].user_id = ilog[i + 1].user_id
    /\ ilog[i].campaign = ilog[i + 1].campaign
    /\ ilog[i].file_path = ilog[i + 1].file_path
    /\ ilog[i + 1].started_after <= ilog[i].seq

\* C24, as stated: once two concurrent requests for the same file have both
\* returned, the records stored for the file are the records of one of the
\* two versions.
C24_AsStated ==
    \A i \in 1..(Len(ilog) - 1) :
        ConcurrentPair(i) =>
            LET e == ilog[i]
                stored == FileRecords(vectors, e.user_id, e.campaign, e.file_path)
            IN  \/ stored = RecordsOf(e.user_id, e.campaign, e.file_path, e.content)
                \/ stored = RecordsOf(e.user_id, e.campaign, e.file_path, ilog[i + 1].content)

----------------------------------------------------------------------------
(* Properties of a turn whose client has gone away *)

\* C25: a turn whose connection closed before main() returned ends as a
\* turn does: nothing but a planning, tool or generation call that raised
\* ends it early, and when none did, every dispatched tool call has its
\* result, the generation call was made unless the turn is a passthrough,
\* the response is returned and the pair is in the table when the write
\* succeeded.  What was sent to the client is a prefix of what the stream
\* callback was handed.
C25_DisconnectDoesNotAbort ==
    (pc = "done" /\ ~connected) =>
        /\ raisedIn \in {"none", "planning", "tool", "generation"}
        /\ raisedIn = "none" =>
              /\ Responded
              /\ Len(SelectSeq(messages, IsToolMessage)) = Len(tools_executed)
              /\ genCalls = IF passthrough_only(tools_executed) THEN 0 ELSE 1
              /\ IF pendingSave[turn.session_id] # <<>>
                 THEN OnePairAppended
                 ELSE store = storeAtStart
        /\ Len(delivered) <= Len(streamed)
        /\ \A i \in DOMAIN delivered : delivered[i] = streamed[i].text

C25_Witness ==
    /\ pc = "done"
    /\ ~connected
    /\ Responded
    /\ toolRounds = 1
    /\ genCalls = 1
    /\ OnePairAppended
    /\ Len(streamed) = 2
    /\ delivered = <<>>

----------------------------------------------------------------------------
(* Properties of the tools-used record *)

RECURSIVE CallsIn(_)
\* the tool calls of messages[1..n], in order
CallsIn(n) == IF n = 0 THEN <<>> ELSE CallsIn(n - 1) \o messages[n].tool_calls

\* name and arguments of a call as the planning model gave them, without
\* the keys user_id, campaign and session_id
Display(tool_call) ==
    tool_call.name \o "("
        \o JoinArgs(tool_call.args, DOMAIN tool_call.args \ {"user_id", "campaign", "session_id"})
        \o ")"

\* C26: between rounds and after the loop, tools_executed has one entry per
\* tool call of the turn, in the order of the calls over all rounds, each
\* the name of the tool with its arguments other than user_id, campaign and
\* session_id; the response returned is the answer followed by the list of
\* the entries when there is one, and the answer alone when there is none.
C26_ToolsUsedRecord ==
    /\ (pc \in {"agent", "respond", "save"} \/ Responded) =>
          LET calls == CallsIn(Len(messages))
          IN  tools_executed = [i \in 1..Len(calls) |-> Display(calls[i])]
    /\ \A i \in DOMAIN tools_executed : \A k \in INJECTED_KEYS :
          ~Contains(tools_executed[i], k \o "=")
    /\ Responded =>
          result.text = response_text \o
              (IF tools_executed = <<>> THEN ""
               ELSE "\n\n---\n" \o Bullets(tools_executed))

C26_Witness ==
    /\ Responded
    /\ toolRounds = 2
    /\ Len(tools_executed) = 5
    /\ tools_executed[1] = "translate_runes(text='HELLO')"
    /\ tools_executed[2] = "search_campaign(query='sildar')"
    /\ tools_executed[4] = "get_conversation_history()"
    /\ tools_executed[5] = "list_campaign_files()"
    /\ result.text = "answer" \o "\n\n---\n" \o Bullets(tools_executed)

----------------------------------------------------------------------------
(* Properties of the delete phase and of the counts of an index request *)

\* a query_vectors or delete_vectors call of the delete phase of wr raised
DeletePhaseFailed(wr) == wr.failed \cap {"query_vectors", "delete_vectors"} # {}

\* C27 as stated: a request answered with 200 reports as chunksDeleted the
\* number of records its delete phase removed from the index, and as
\* chunksProcessed the number of chunks that got an embedding.
C27_AsStated ==
    \A i \in DOMAIN ilog :
        ilog[i].statusCode = 200 =>
            /\ ilog[i].chunksDeleted = ilog[i].removed
            /\ ilog[i].chunksProcessed = Cardinality(ilog[i].embedded)

\* C30: the delete phase makes at most one query more than the number of
\* full pages among the records the file had when the request arrived, and
\* goes on only after a full page; when none of its calls raised it ends
\* after the first query that returned fewer than 30 records, has then
\* removed every record the file had and left none that matches the file,
\* whether that number is below, at or above a multiple of 30.  The records
\* of another owner or collection stay.
C30_DeletePhaseDrains ==
    /\ Bystanders \subseteq vectors
    /\ \A w \in Workers :
          LET wr == ix[w]
          IN  wr.pc # "idle" =>
                /\ Len(wr.pages) <= wr.at_start \div TOP_K + 1
                /\ \A i \in 1..(Len(wr.pages) - 1) : wr.pages[i] = TOP_K
                /\ (wr.pc \in {"put_object", "embed"} /\ ~DeletePhaseFailed(wr)) =>
                      /\ wr.pages # <<>>
                      /\ Last(wr.pages) < TOP_K
                      /\ Len(wr.pages) = wr.at_start \div TOP_K + 1
                      /\ wr.removed = wr.at_start
                      /\ wr.deleted_count = wr.at_start
                      /\ FileRecords(vectors, wr.user_id, wr.campaign, wr.file_path) = {}

C30_Witness ==
    \E w \in Workers :
        /\ ix[w].pc = "put_object"
        /\ ~DeletePhaseFailed(ix[w])
        /\ ix[w].at_start = 2 * TOP_K
        /\ ix[w].pages = <<TOP_K, TOP_K, 0>>
        /\ vectors = Bystanders

----------------------------------------------------------------------------
(* Properties of the snippets of a search *)

\* C28 as stated: in the text a search returns, the snippet of the i-th
\* record of the answer is numbered i and, when the record was written by
\* index_handler, names the filePath of the record in front of its chunk
\* text.
C28_AsStated ==
    (sq.pc = "returned" /\ sq.results # <<>>) =>
        \A i \in DOMAIN sq.results :
            sq.results[i] \in IndexedRecords =>
                Contains(sq.ret, "Result " \o ToString(i) \o " (from "
                                   \o sq.results[i].filePath \o "):\n"
                                   \o sq.results[i].chunkText \o "\n")

----------------------------------------------------------------------------
(* Properties of the iteration cap *)

\* the planning rounds of this turn that produced tool calls: the AI
\* messages with tool calls that follow the prompt of the turn
RoundsOfTurn(msgs) ==
    Cardinality({i \in DOMAIN msgs :
                    /\ i > Len(turn.history_messages) + 2
                    /\ msgs[i].type = "ai"
                    /\ msgs[i].tool_calls # <<>>})

\* a step of _agent_node taken when MAX_ITERATIONS planning rounds of the
\* turn have produced tool calls
CappedRound ==
    (pc = "agent" /\ RoundsOfTurn(messages) >= MAX_ITERATIONS /\ messages' # messages) =>
        /\ planCalls' = planCalls
        /\ "llm" \in extCalls' => "llm" \in extCalls
        /\ Last(messages').content = "[MAX_ITERATIONS_REACHED]"
        /\ Last(messages').tool_calls = <<>>
        /\ Len(messages') = Len(messages) + 1
        /\ pc' = "respond"

\* C31: once MAX_ITERATIONS planning rounds of the turn have produced tool
\* calls, the next run of _agent_node does not invoke the planning model and
\* the graph goes to END; the planning model is invoked at most
\* MAX_ITERATIONS times in a turn.
C31_CapSkipsPlanner == [][CappedRound /\ planCalls' <= MAX_ITERATIONS]_vars

C31_Witness ==
    /\ pc = "respond"
    /\ planCalls = MAX_ITERATIONS
    /\ RoundsOfTurn(messages) = MAX_ITERATIONS
    /\ Last(messages).content = "[MAX_ITERATIONS_REACHED]"
    /\ genCalls = 0

\* C38: the count _agent_node compares with MAX_ITERATIONS is the number of
\* planning rounds of the current turn that produced tool calls: no message
\* taken from the history carries tool calls, so a turn that follows other
\* turns of its session is cut off only after MAX_ITERATIONS rounds of its
\* own.
C38_CountIsOfThisTurn ==
    messages # <<>> =>
        /\ iteration_count(messages) = RoundsOfTurn(messages)
        /\ \A i \in DOMAIN turn.history_messages :
              turn.history_messages[i].tool_calls = <<>>
        /\ (pc = "agent" /\ RoundsOfTurn(messages) < MAX_ITERATIONS) => ~capped(messages)
        /\ (pc = "agent" /\ toolRounds < MAX_ITERATIONS) => ~capped(messages)

C38_Witness ==
    /\ turns = MaxTurns
    /\ pc = "tools"
    /\ Len(turn.history_messages) = 2
    /\ turn.history_messages[2].type = "ai"
    /\ toolRounds = MAX_ITERATIONS - 1
    /\ planCalls = MAX_ITERATIONS
    /\ RoundsOfTurn(messages) = MAX_ITERATIONS

----------------------------------------------------------------------------
(* Properties of the generation call *)

RECURSIVE FoundInOrder(_, _)
\* the strings of contents occur in text one after the other, none
\* overlapping the one before
FoundInOrder(text, contents) ==
    IF contents = <<>> THEN TRUE
    ELSE \E j \in 0..(Len(text) - Len(Head(contents))) :
            /\ Slice(text, j, j + Len(Head(contents))) = Head(contents)
            /\ \A k \in 0..(j - 1) :
                  Slice(text, k, k + Len(Head(contents))) # Head(contents)
            /\ FoundInOrder(Slice(text, j + Len(Head(contents)), Len(text)),
                            Tail(contents))

\* a step that invokes the generation model
GenerationStep ==
    genCalls' = genCalls + 1 =>
        LET tool_messages == SelectSeq(messages, IsToolMessage)
            n == Len(turn.history_messages)
        IN  /\ pc = "respond"
            /\ Last(messages).type = "ai"
            /\ Last(messages).tool_calls = <<>>
            /\ Len(tool_messages) = Len(CallsIn(Len(messages)))
            /\ toolRounds' = toolRounds /\ planCalls' = planCalls /\ messages' = messages
            /\ Len(final_messages') = n + 2 + (IF tool_messages = <<>> THEN 0 ELSE 1)
            /\ final_messages'[1].type = "system"
            /\ SubSeq(final_messages', 2, n + 1) = turn.history_messages
            /\ final_messages'[n + 2] = HumanMessage(turn.user_message)
            /\ tool_messages # <<>> =>
                  /\ final_messages'[n + 3].type = "human"
                  /\ FoundInOrder(final_messages'[n + 3].content,
                                  [i \in DOMAIN tool_messages |-> tool_messages[i].content])

\* C32: the generation model is invoked only at the END of the graph, when
\* every tool call of the turn has its tool message and no round is left to
\* run, and the list it is invoked with is a system prompt, the history
\* messages of the turn, the user message and, when tools ran, a message
\* holding the content of every tool message of the turn in the order in
\* which they were produced; without the call the list stays empty.
C32_GenerationAfterLoop ==
    [][GenerationStep /\ (genCalls' = 0 => final_messages' = <<>>)]_vars

C32_Witness ==
    /\ pc = "save"
    /\ genCalls = 1
    /\ toolRounds = 2
    /\ Len(SelectSeq(messages, IsToolMessage)) = 5
    /\ Len(turn.history_messages) = 2
    /\ Len(final_messages) = 5

----------------------------------------------------------------------------
(* Properties of the history cache with more than one execution context *)

\* C33 as stated: a turn whose load_history was answered from the cache got
\* every message the table held for the session at that moment, so no
\* saved pair is missing from it.
C33_AsStated ==
    (pc # "idle" /\ loadedFrom = "cache") =>
        /\ cacheAtStart[turn.session_id].msgs
              = clean_history_messages(storeAtStart[turn.session_id])
        /\ turn.history_messages
              = LastN(clean_history_messages(storeAtStart[turn.session_id]), 2)

----------------------------------------------------------------------------
(* Properties of the messages of the socket handler *)

IsTerminal(m) == m.type \in {"complete", "error"}

----------------------------------------------------------------------------
(* Properties of the passthrough branch *)

\* names of the tools dispatched in the turn
DispatchedNames ==
    LET calls == CallsIn(Len(messages))
    IN  {calls[i].name : i \in 1..Len(tools_executed)}

\* C35 as stated: a turn that returns a response without a generation call
\* has dispatched passthrough tools only, and a turn that dispatched any
\* other tool has its answer from the generation call.
C35_AsStated ==
    Responded =>
        /\ genCalls = 0 => DispatchedNames \subseteq PASSTHROUGH_TOOLS
        /\ DispatchedNames \ PASSTHROUGH_TOOLS # {} =>
              (genCalls = 1 /\ response_text = "answer")

----------------------------------------------------------------------------
(* Properties of a failed history write *)

\* the step of main() from the tools summary to its return
SaveStep == pc = "save" /\ pc' = "done" /\ raisedIn' = "none"

\* C36: when the write of save_messages fails, main() returns the response
\* all the same, the table is as it was and the cache is as it was, the
\* entry of the session included; the entry of a session is removed by this
\* step only together with a write that appended the pair of the turn.
C36_FailedWriteKeepsResponse ==
    [][SaveStep =>
          /\ result'.kind = "response"
          /\ result'.text = response_text \o get_tools_summary(tools_executed)
          /\ store' = store =>
                /\ history_cache' = history_cache
                /\ pendingSave' = pendingSave
          /\ store' # store =>
                /\ store' = [store EXCEPT ![turn.session_id] =
                                @ \o <<HumanMessage(turn.user_message),
                                       AIMessage(response_text)>>]
                /\ history_cache' = [history_cache EXCEPT ![turn.session_id] = NotCached]
      ]_vars

C36_Witness ==
    /\ Responded
    /\ genCalls = 1
    /\ result.text = "answer"
    /\ loadedFrom = "store"
    /\ store = storeAtStart
    /\ Len(store[turn.session_id]) = 2
    /\ history_cache[turn.session_id] = Cached(store[turn.session_id])

----------------------------------------------------------------------------
(* Properties of the records of other files *)

\* the records of V that are not of the file worker state wr is indexing
RecordsOfOthers(V, wr) ==
    {v \in V : ~(v.userId = wr.user_id /\ v.campaign = wr.campaign
                 /\ v.filePath = wr.file_path)}

\* C34 as stated: no step of an index request, running alone, changes the
\* set of records stored for a file other than the one it indexes.
C34_AsStated ==
    [][\A w \in Workers :
          (ix[w].pc # "idle" /\ \A o \in Workers \ {w} : ix[o].pc = "idle") =>
              RecordsOfOthers(vectors', ix[w]) = RecordsOfOthers(vectors, ix[w])]_vars

====
